---- MODULE Spec2Model ----
(***************************************************************************)
(* Model of the support agent backend (src/backend.py): the two-tier       *)
(* response cache (CacheManager) and the /query pipeline (process_query).  *)
(*                                                                         *)
(* Text that the code normalises (lower(), strip(), split, slicing) is a   *)
(* sequence of characters, a character being its Unicode code point (a     *)
(* number from 0 to 1114111 outside the surrogates 55296 to 57343, which   *)
(* no text that can be hashed holds), so that the normalisations are       *)
(* computed and not assumed, for every character as Python 3.11 (Unicode   *)
(* 14.0) computes them.  A float is the double it is in the program.       *)
(* Time is counted in hours.  The server's                                 *)
(* local clock is taken to be UTC, so datetime.now() and SQLite's          *)
(* datetime('now') read the same clock.  md5 is taken to be injective on   *)
(* the normalised questions of the model.                                  *)
(***************************************************************************)
EXTENDS Integers, Sequences, FiniteSets, TLC

\* ------------------------------------------------------------------ bounds

\* The clock stops advancing here.
MaxTime == 24
\* The durable hit counter of one row is not driven past this.
MaxHits == 1
\* The analytics and sentiment logs hold at most this many rows.
MaxLog == 2
\* The index holds at most this many chunks of one source.
MaxChunks == 2

\* ------------------------------------------------------- program constants

\* CacheManager.__init__(ttl_hours=24)
DEFAULT_TTL_HOURS == 24
\* datetime('now', '-24 hours') in CacheManager.get
DB_WINDOW_HOURS == 24
\* questions[:3] in FollowUpGenerator.generate
MAX_FOLLOWUPS == 3
\* len(agent.reasoning_steps) < 5 in process_query
RETRY_TRACE_LIMIT == 5
\* lower()[:2] in LanguageDetector.detect_language
LANG_CODE_LEN == 2
\* doc.page_content[:200] in process_query
PREVIEW_CHARS == 200

\* --------------------------------------------------------------- text

\* F(e), with e evaluated once, before F is applied to its value.
Apply(F(_), e) == CHOOSE r \in {F(v) : v \in {e}} : TRUE

\* F applied n times to x.
RECURSIVE Iterate(_, _, _)
Iterate(F(_), x, n) ==
    CHOOSE r \in { IF m = 0 THEN v
                   ELSE IF m = 1 THEN F(v)
                   ELSE Iterate(F, Iterate(F, v, m \div 2), m - m \div 2) :
                   v \in {x}, m \in {n} } : TRUE

\* The characters str.isspace() accepts, which str.strip() removes: rows
\* first..last of code points.
WHITESPACE ==
    << <<9, 13>>, <<28, 32>>, <<133, 133>>, <<160, 160>>, <<5760, 5760>>, <<8192, 8202>>,
       <<8232, 8233>>, <<8239, 8239>>, <<8287, 8287>>, <<12288, 12288>> >>

\* The characters str.isalpha() accepts.
ALPHA ==
    << <<65, 90>>, <<97, 122>>, <<170, 170>>, <<181, 181>>, <<186, 186>>, <<192, 214>>,
       <<216, 246>>, <<248, 705>>, <<710, 721>>, <<736, 740>>, <<748, 748>>, <<750, 750>>,
       <<880, 884>>, <<886, 887>>, <<890, 893>>, <<895, 895>>, <<902, 902>>, <<904, 906>>,
       <<908, 908>>, <<910, 929>>, <<931, 1013>>, <<1015, 1153>>, <<1162, 1327>>, <<1329, 1366>>,
       <<1369, 1369>>, <<1376, 1416>>, <<1488, 1514>>, <<1519, 1522>>, <<1568, 1610>>, <<1646, 1647>>,
       <<1649, 1747>>, <<1749, 1749>>, <<1765, 1766>>, <<1774, 1775>>, <<1786, 1788>>, <<1791, 1791>>,
       <<1808, 1808>>, <<1810, 1839>>, <<1869, 1957>>, <<1969, 1969>>, <<1994, 2026>>, <<2036, 2037>>,
       <<2042, 2042>>, <<2048, 2069>>, <<2074, 2074>>, <<2084, 2084>>, <<2088, 2088>>, <<2112, 2136>>,
       <<2144, 2154>>, <<2160, 2183>>, <<2185, 2190>>, <<2208, 2249>>, <<2308, 2361>>, <<2365, 2365>>,
       <<2384, 2384>>, <<2392, 2401>>, <<2417, 2432>>, <<2437, 2444>>, <<2447, 2448>>, <<2451, 2472>>,
       <<2474, 2480>>, <<2482, 2482>>, <<2486, 2489>>, <<2493, 2493>>, <<2510, 2510>>, <<2524, 2525>>,
       <<2527, 2529>>, <<2544, 2545>>, <<2556, 2556>>, <<2565, 2570>>, <<2575, 2576>>, <<2579, 2600>>,
       <<2602, 2608>>, <<2610, 2611>>, <<2613, 2614>>, <<2616, 2617>>, <<2649, 2652>>, <<2654, 2654>>,
       <<2674, 2676>>, <<2693, 2701>>, <<2703, 2705>>, <<2707, 2728>>, <<2730, 2736>>, <<2738, 2739>>,
       <<2741, 2745>>, <<2749, 2749>>, <<2768, 2768>>, <<2784, 2785>>, <<2809, 2809>>, <<2821, 2828>>,
       <<2831, 2832>>, <<2835, 2856>>, <<2858, 2864>>, <<2866, 2867>>, <<2869, 2873>>, <<2877, 2877>>,
       <<2908, 2909>>, <<2911, 2913>>, <<2929, 2929>>, <<2947, 2947>>, <<2949, 2954>>, <<2958, 2960>>,
       <<2962, 2965>>, <<2969, 2970>>, <<2972, 2972>>, <<2974, 2975>>, <<2979, 2980>>, <<2984, 2986>>,
       <<2990, 3001>>, <<3024, 3024>>, <<3077, 3084>>, <<3086, 3088>>, <<3090, 3112>>, <<3114, 3129>>,
       <<3133, 3133>>, <<3160, 3162>>, <<3165, 3165>>, <<3168, 3169>>, <<3200, 3200>>, <<3205, 3212>>,
       <<3214, 3216>>, <<3218, 3240>>, <<3242, 3251>>, <<3253, 3257>>, <<3261, 3261>>, <<3293, 3294>>,
       <<3296, 3297>>, <<3313, 3314>>, <<3332, 3340>>, <<3342, 3344>>, <<3346, 3386>>, <<3389, 3389>>,
       <<3406, 3406>>, <<3412, 3414>>, <<3423, 3425>>, <<3450, 3455>>, <<3461, 3478>>, <<3482, 3505>>,
       <<3507, 3515>>, <<3517, 3517>>, <<3520, 3526>>, <<3585, 3632>>, <<3634, 3635>>, <<3648, 3654>>,
       <<3713, 3714>>, <<3716, 3716>>, <<3718, 3722>>, <<3724, 3747>>, <<3749, 3749>>, <<3751, 3760>>,
       <<3762, 3763>>, <<3773, 3773>>, <<3776, 3780>>, <<3782, 3782>>, <<3804, 3807>>, <<3840, 3840>>,
       <<3904, 3911>>, <<3913, 3948>>, <<3976, 3980>>, <<4096, 4138>>, <<4159, 4159>>, <<4176, 4181>>,
       <<4186, 4189>>, <<4193, 4193>>, <<4197, 4198>>, <<4206, 4208>>, <<4213, 4225>>, <<4238, 4238>>,
       <<4256, 4293>>, <<4295, 4295>>, <<4301, 4301>>, <<4304, 4346>>, <<4348, 4680>>, <<4682, 4685>>,
       <<4688, 4694>>, <<4696, 4696>>, <<4698, 4701>>, <<4704, 4744>>, <<4746, 4749>>, <<4752, 4784>>,
       <<4786, 4789>>, <<4792, 4798>>, <<4800, 4800>>, <<4802, 4805>>, <<4808, 4822>>, <<4824, 4880>>,
       <<4882, 4885>>, <<4888, 4954>>, <<4992, 5007>>, <<5024, 5109>>, <<5112, 5117>>, <<5121, 5740>>,
       <<5743, 5759>>, <<5761, 5786>>, <<5792, 5866>>, <<5873, 5880>>, <<5888, 5905>>, <<5919, 5937>>,
       <<5952, 5969>>, <<5984, 5996>>, <<5998, 6000>>, <<6016, 6067>>, <<6103, 6103>>, <<6108, 6108>>,
       <<6176, 6264>>, <<6272, 6276>>, <<6279, 6312>>, <<6314, 6314>>, <<6320, 6389>>, <<6400, 6430>>,
       <<6480, 6509>>, <<6512, 6516>>, <<6528, 6571>>, <<6576, 6601>>, <<6656, 6678>>, <<6688, 6740>>,
       <<6823, 6823>>, <<6917, 6963>>, <<6981, 6988>>, <<7043, 7072>>, <<7086, 7087>>, <<7098, 7141>>,
       <<7168, 7203>>, <<7245, 7247>>, <<7258, 7293>>, <<7296, 7304>>, <<7312, 7354>>, <<7357, 7359>>,
       <<7401, 7404>>, <<7406, 7411>>, <<7413, 7414>>, <<7418, 7418>>, <<7424, 7615>>, <<7680, 7957>>,
       <<7960, 7965>>, <<7968, 8005>>, <<8008, 8013>>, <<8016, 8023>>, <<8025, 8025>>, <<8027, 8027>>,
       <<8029, 8029>>, <<8031, 8061>>, <<8064, 8116>>, <<8118, 8124>>, <<8126, 8126>>, <<8130, 8132>>,
       <<8134, 8140>>, <<8144, 8147>>, <<8150, 8155>>, <<8160, 8172>>, <<8178, 8180>>, <<8182, 8188>>,
       <<8305, 8305>>, <<8319, 8319>>, <<8336, 8348>>, <<8450, 8450>>, <<8455, 8455>>, <<8458, 8467>>,
       <<8469, 8469>>, <<8473, 8477>>, <<8484, 8484>>, <<8486, 8486>>, <<8488, 8488>>, <<8490, 8493>>,
       <<8495, 8505>>, <<8508, 8511>>, <<8517, 8521>>, <<8526, 8526>>, <<8579, 8580>>, <<11264, 11492>>,
       <<11499, 11502>>, <<11506, 11507>>, <<11520, 11557>>, <<11559, 11559>>, <<11565, 11565>>, <<11568, 11623>>,
       <<11631, 11631>>, <<11648, 11670>>, <<11680, 11686>>, <<11688, 11694>>, <<11696, 11702>>, <<11704, 11710>>,
       <<11712, 11718>>, <<11720, 11726>>, <<11728, 11734>>, <<11736, 11742>>, <<11823, 11823>>, <<12293, 12294>>,
       <<12337, 12341>>, <<12347, 12348>>, <<12353, 12438>>, <<12445, 12447>>, <<12449, 12538>>, <<12540, 12543>>,
       <<12549, 12591>>, <<12593, 12686>>, <<12704, 12735>>, <<12784, 12799>>, <<13312, 19903>>, <<19968, 42124>>,
       <<42192, 42237>>, <<42240, 42508>>, <<42512, 42527>>, <<42538, 42539>>, <<42560, 42606>>, <<42623, 42653>>,
       <<42656, 42725>>, <<42775, 42783>>, <<42786, 42888>>, <<42891, 42954>>, <<42960, 42961>>, <<42963, 42963>>,
       <<42965, 42969>>, <<42994, 43009>>, <<43011, 43013>>, <<43015, 43018>>, <<43020, 43042>>, <<43072, 43123>>,
       <<43138, 43187>>, <<43250, 43255>>, <<43259, 43259>>, <<43261, 43262>>, <<43274, 43301>>, <<43312, 43334>>,
       <<43360, 43388>>, <<43396, 43442>>, <<43471, 43471>>, <<43488, 43492>>, <<43494, 43503>>, <<43514, 43518>>,
       <<43520, 43560>>, <<43584, 43586>>, <<43588, 43595>>, <<43616, 43638>>, <<43642, 43642>>, <<43646, 43695>>,
       <<43697, 43697>>, <<43701, 43702>>, <<43705, 43709>>, <<43712, 43712>>, <<43714, 43714>>, <<43739, 43741>>,
       <<43744, 43754>>, <<43762, 43764>>, <<43777, 43782>>, <<43785, 43790>>, <<43793, 43798>>, <<43808, 43814>>,
       <<43816, 43822>>, <<43824, 43866>>, <<43868, 43881>>, <<43888, 44002>>, <<44032, 55203>>, <<55216, 55238>>,
       <<55243, 55291>>, <<63744, 64109>>, <<64112, 64217>>, <<64256, 64262>>, <<64275, 64279>>, <<64285, 64285>>,
       <<64287, 64296>>, <<64298, 64310>>, <<64312, 64316>>, <<64318, 64318>>, <<64320, 64321>>, <<64323, 64324>>,
       <<64326, 64433>>, <<64467, 64829>>, <<64848, 64911>>, <<64914, 64967>>, <<65008, 65019>>, <<65136, 65140>>,
       <<65142, 65276>>, <<65313, 65338>>, <<65345, 65370>>, <<65382, 65470>>, <<65474, 65479>>, <<65482, 65487>>,
       <<65490, 65495>>, <<65498, 65500>>, <<65536, 65547>>, <<65549, 65574>>, <<65576, 65594>>, <<65596, 65597>>,
       <<65599, 65613>>, <<65616, 65629>>, <<65664, 65786>>, <<66176, 66204>>, <<66208, 66256>>, <<66304, 66335>>,
       <<66349, 66368>>, <<66370, 66377>>, <<66384, 66421>>, <<66432, 66461>>, <<66464, 66499>>, <<66504, 66511>>,
       <<66560, 66717>>, <<66736, 66771>>, <<66776, 66811>>, <<66816, 66855>>, <<66864, 66915>>, <<66928, 66938>>,
       <<66940, 66954>>, <<66956, 66962>>, <<66964, 66965>>, <<66967, 66977>>, <<66979, 66993>>, <<66995, 67001>>,
       <<67003, 67004>>, <<67072, 67382>>, <<67392, 67413>>, <<67424, 67431>>, <<67456, 67461>>, <<67463, 67504>>,
       <<67506, 67514>>, <<67584, 67589>>, <<67592, 67592>>, <<67594, 67637>>, <<67639, 67640>>, <<67644, 67644>>,
       <<67647, 67669>>, <<67680, 67702>>, <<67712, 67742>>, <<67808, 67826>>, <<67828, 67829>>, <<67840, 67861>>,
       <<67872, 67897>>, <<67968, 68023>>, <<68030, 68031>>, <<68096, 68096>>, <<68112, 68115>>, <<68117, 68119>>,
       <<68121, 68149>>, <<68192, 68220>>, <<68224, 68252>>, <<68288, 68295>>, <<68297, 68324>>, <<68352, 68405>>,
       <<68416, 68437>>, <<68448, 68466>>, <<68480, 68497>>, <<68608, 68680>>, <<68736, 68786>>, <<68800, 68850>>,
       <<68864, 68899>>, <<69248, 69289>>, <<69296, 69297>>, <<69376, 69404>>, <<69415, 69415>>, <<69424, 69445>>,
       <<69488, 69505>>, <<69552, 69572>>, <<69600, 69622>>, <<69635, 69687>>, <<69745, 69746>>, <<69749, 69749>>,
       <<69763, 69807>>, <<69840, 69864>>, <<69891, 69926>>, <<69956, 69956>>, <<69959, 69959>>, <<69968, 70002>>,
       <<70006, 70006>>, <<70019, 70066>>, <<70081, 70084>>, <<70106, 70106>>, <<70108, 70108>>, <<70144, 70161>>,
       <<70163, 70187>>, <<70272, 70278>>, <<70280, 70280>>, <<70282, 70285>>, <<70287, 70301>>, <<70303, 70312>>,
       <<70320, 70366>>, <<70405, 70412>>, <<70415, 70416>>, <<70419, 70440>>, <<70442, 70448>>, <<70450, 70451>>,
       <<70453, 70457>>, <<70461, 70461>>, <<70480, 70480>>, <<70493, 70497>>, <<70656, 70708>>, <<70727, 70730>>,
       <<70751, 70753>>, <<70784, 70831>>, <<70852, 70853>>, <<70855, 70855>>, <<71040, 71086>>, <<71128, 71131>>,
       <<71168, 71215>>, <<71236, 71236>>, <<71296, 71338>>, <<71352, 71352>>, <<71424, 71450>>, <<71488, 71494>>,
       <<71680, 71723>>, <<71840, 71903>>, <<71935, 71942>>, <<71945, 71945>>, <<71948, 71955>>, <<71957, 71958>>,
       <<71960, 71983>>, <<71999, 71999>>, <<72001, 72001>>, <<72096, 72103>>, <<72106, 72144>>, <<72161, 72161>>,
       <<72163, 72163>>, <<72192, 72192>>, <<72203, 72242>>, <<72250, 72250>>, <<72272, 72272>>, <<72284, 72329>>,
       <<72349, 72349>>, <<72368, 72440>>, <<72704, 72712>>, <<72714, 72750>>, <<72768, 72768>>, <<72818, 72847>>,
       <<72960, 72966>>, <<72968, 72969>>, <<72971, 73008>>, <<73030, 73030>>, <<73056, 73061>>, <<73063, 73064>>,
       <<73066, 73097>>, <<73112, 73112>>, <<73440, 73458>>, <<73648, 73648>>, <<73728, 74649>>, <<74880, 75075>>,
       <<77712, 77808>>, <<77824, 78894>>, <<82944, 83526>>, <<92160, 92728>>, <<92736, 92766>>, <<92784, 92862>>,
       <<92880, 92909>>, <<92928, 92975>>, <<92992, 92995>>, <<93027, 93047>>, <<93053, 93071>>, <<93760, 93823>>,
       <<93952, 94026>>, <<94032, 94032>>, <<94099, 94111>>, <<94176, 94177>>, <<94179, 94179>>, <<94208, 100343>>,
       <<100352, 101589>>, <<101632, 101640>>, <<110576, 110579>>, <<110581, 110587>>, <<110589, 110590>>, <<110592, 110882>>,
       <<110928, 110930>>, <<110948, 110951>>, <<110960, 111355>>, <<113664, 113770>>, <<113776, 113788>>, <<113792, 113800>>,
       <<113808, 113817>>, <<119808, 119892>>, <<119894, 119964>>, <<119966, 119967>>, <<119970, 119970>>, <<119973, 119974>>,
       <<119977, 119980>>, <<119982, 119993>>, <<119995, 119995>>, <<119997, 120003>>, <<120005, 120069>>, <<120071, 120074>>,
       <<120077, 120084>>, <<120086, 120092>>, <<120094, 120121>>, <<120123, 120126>>, <<120128, 120132>>, <<120134, 120134>>,
       <<120138, 120144>>, <<120146, 120485>>, <<120488, 120512>>, <<120514, 120538>>, <<120540, 120570>>, <<120572, 120596>>,
       <<120598, 120628>>, <<120630, 120654>>, <<120656, 120686>>, <<120688, 120712>>, <<120714, 120744>>, <<120746, 120770>>,
       <<120772, 120779>>, <<122624, 122654>>, <<123136, 123180>>, <<123191, 123197>>, <<123214, 123214>>, <<123536, 123565>>,
       <<123584, 123627>>, <<124896, 124902>>, <<124904, 124907>>, <<124909, 124910>>, <<124912, 124926>>, <<124928, 125124>>,
       <<125184, 125251>>, <<125259, 125259>>, <<126464, 126467>>, <<126469, 126495>>, <<126497, 126498>>, <<126500, 126500>>,
       <<126503, 126503>>, <<126505, 126514>>, <<126516, 126519>>, <<126521, 126521>>, <<126523, 126523>>, <<126530, 126530>>,
       <<126535, 126535>>, <<126537, 126537>>, <<126539, 126539>>, <<126541, 126543>>, <<126545, 126546>>, <<126548, 126548>>,
       <<126551, 126551>>, <<126553, 126553>>, <<126555, 126555>>, <<126557, 126557>>, <<126559, 126559>>, <<126561, 126562>>,
       <<126564, 126564>>, <<126567, 126570>>, <<126572, 126578>>, <<126580, 126583>>, <<126585, 126588>>, <<126590, 126590>>,
       <<126592, 126601>>, <<126603, 126619>>, <<126625, 126627>>, <<126629, 126633>>, <<126635, 126651>>, <<131072, 173791>>,
       <<173824, 177976>>, <<177984, 178205>>, <<178208, 183969>>, <<183984, 191456>>, <<194560, 195101>>, <<196608, 201546>> >>

\* The characters str.lower() changes into one other character: the row
\* <<first, last, step, delta>> holds first, first + step, ... up to last,
\* and each becomes the character delta further on.
LOWER ==
    << <<65, 90, 1, 32>>, <<192, 214, 1, 32>>, <<216, 222, 1, 32>>, <<256, 302, 2, 1>>,
       <<306, 310, 2, 1>>, <<313, 327, 2, 1>>, <<330, 374, 2, 1>>, <<376, 376, 1, -121>>,
       <<377, 381, 2, 1>>, <<385, 385, 1, 210>>, <<386, 388, 2, 1>>, <<390, 390, 1, 206>>,
       <<391, 391, 1, 1>>, <<393, 394, 1, 205>>, <<395, 395, 1, 1>>, <<398, 398, 1, 79>>,
       <<399, 399, 1, 202>>, <<400, 400, 1, 203>>, <<401, 401, 1, 1>>, <<403, 403, 1, 205>>,
       <<404, 404, 1, 207>>, <<406, 406, 1, 211>>, <<407, 407, 1, 209>>, <<408, 408, 1, 1>>,
       <<412, 412, 1, 211>>, <<413, 413, 1, 213>>, <<415, 415, 1, 214>>, <<416, 420, 2, 1>>,
       <<422, 422, 1, 218>>, <<423, 423, 1, 1>>, <<425, 425, 1, 218>>, <<428, 428, 1, 1>>,
       <<430, 430, 1, 218>>, <<431, 431, 1, 1>>, <<433, 434, 1, 217>>, <<435, 437, 2, 1>>,
       <<439, 439, 1, 219>>, <<440, 440, 1, 1>>, <<444, 444, 1, 1>>, <<452, 452, 1, 2>>,
       <<453, 453, 1, 1>>, <<455, 455, 1, 2>>, <<456, 456, 1, 1>>, <<458, 458, 1, 2>>,
       <<459, 475, 2, 1>>, <<478, 494, 2, 1>>, <<497, 497, 1, 2>>, <<498, 500, 2, 1>>,
       <<502, 502, 1, -97>>, <<503, 503, 1, -56>>, <<504, 542, 2, 1>>, <<544, 544, 1, -130>>,
       <<546, 562, 2, 1>>, <<570, 570, 1, 10795>>, <<571, 571, 1, 1>>, <<573, 573, 1, -163>>,
       <<574, 574, 1, 10792>>, <<577, 577, 1, 1>>, <<579, 579, 1, -195>>, <<580, 580, 1, 69>>,
       <<581, 581, 1, 71>>, <<582, 590, 2, 1>>, <<880, 882, 2, 1>>, <<886, 886, 1, 1>>,
       <<895, 895, 1, 116>>, <<902, 902, 1, 38>>, <<904, 906, 1, 37>>, <<908, 908, 1, 64>>,
       <<910, 911, 1, 63>>, <<913, 929, 1, 32>>, <<931, 939, 1, 32>>, <<975, 975, 1, 8>>,
       <<984, 1006, 2, 1>>, <<1012, 1012, 1, -60>>, <<1015, 1015, 1, 1>>, <<1017, 1017, 1, -7>>,
       <<1018, 1018, 1, 1>>, <<1021, 1023, 1, -130>>, <<1024, 1039, 1, 80>>, <<1040, 1071, 1, 32>>,
       <<1120, 1152, 2, 1>>, <<1162, 1214, 2, 1>>, <<1216, 1216, 1, 15>>, <<1217, 1229, 2, 1>>,
       <<1232, 1326, 2, 1>>, <<1329, 1366, 1, 48>>, <<4256, 4293, 1, 7264>>, <<4295, 4295, 1, 7264>>,
       <<4301, 4301, 1, 7264>>, <<5024, 5103, 1, 38864>>, <<5104, 5109, 1, 8>>, <<7312, 7354, 1, -3008>>,
       <<7357, 7359, 1, -3008>>, <<7680, 7828, 2, 1>>, <<7838, 7838, 1, -7615>>, <<7840, 7934, 2, 1>>,
       <<7944, 7951, 1, -8>>, <<7960, 7965, 1, -8>>, <<7976, 7983, 1, -8>>, <<7992, 7999, 1, -8>>,
       <<8008, 8013, 1, -8>>, <<8025, 8031, 2, -8>>, <<8040, 8047, 1, -8>>, <<8072, 8079, 1, -8>>,
       <<8088, 8095, 1, -8>>, <<8104, 8111, 1, -8>>, <<8120, 8121, 1, -8>>, <<8122, 8123, 1, -74>>,
       <<8124, 8124, 1, -9>>, <<8136, 8139, 1, -86>>, <<8140, 8140, 1, -9>>, <<8152, 8153, 1, -8>>,
       <<8154, 8155, 1, -100>>, <<8168, 8169, 1, -8>>, <<8170, 8171, 1, -112>>, <<8172, 8172, 1, -7>>,
       <<8184, 8185, 1, -128>>, <<8186, 8187, 1, -126>>, <<8188, 8188, 1, -9>>, <<8486, 8486, 1, -7517>>,
       <<8490, 8490, 1, -8383>>, <<8491, 8491, 1, -8262>>, <<8498, 8498, 1, 28>>, <<8544, 8559, 1, 16>>,
       <<8579, 8579, 1, 1>>, <<9398, 9423, 1, 26>>, <<11264, 11311, 1, 48>>, <<11360, 11360, 1, 1>>,
       <<11362, 11362, 1, -10743>>, <<11363, 11363, 1, -3814>>, <<11364, 11364, 1, -10727>>, <<11367, 11371, 2, 1>>,
       <<11373, 11373, 1, -10780>>, <<11374, 11374, 1, -10749>>, <<11375, 11375, 1, -10783>>, <<11376, 11376, 1, -10782>>,
       <<11378, 11378, 1, 1>>, <<11381, 11381, 1, 1>>, <<11390, 11391, 1, -10815>>, <<11392, 11490, 2, 1>>,
       <<11499, 11501, 2, 1>>, <<11506, 11506, 1, 1>>, <<42560, 42604, 2, 1>>, <<42624, 42650, 2, 1>>,
       <<42786, 42798, 2, 1>>, <<42802, 42862, 2, 1>>, <<42873, 42875, 2, 1>>, <<42877, 42877, 1, -35332>>,
       <<42878, 42886, 2, 1>>, <<42891, 42891, 1, 1>>, <<42893, 42893, 1, -42280>>, <<42896, 42898, 2, 1>>,
       <<42902, 42920, 2, 1>>, <<42922, 42922, 1, -42308>>, <<42923, 42923, 1, -42319>>, <<42924, 42924, 1, -42315>>,
       <<42925, 42925, 1, -42305>>, <<42926, 42926, 1, -42308>>, <<42928, 42928, 1, -42258>>, <<42929, 42929, 1, -42282>>,
       <<42930, 42930, 1, -42261>>, <<42931, 42931, 1, 928>>, <<42932, 42946, 2, 1>>, <<42948, 42948, 1, -48>>,
       <<42949, 42949, 1, -42307>>, <<42950, 42950, 1, -35384>>, <<42951, 42953, 2, 1>>, <<42960, 42960, 1, 1>>,
       <<42966, 42968, 2, 1>>, <<42997, 42997, 1, 1>>, <<65313, 65338, 1, 32>>, <<66560, 66599, 1, 40>>,
       <<66736, 66771, 1, 40>>, <<66928, 66938, 1, 39>>, <<66940, 66954, 1, 39>>, <<66956, 66962, 1, 39>>,
       <<66964, 66965, 1, 39>>, <<68736, 68786, 1, 64>>, <<71840, 71871, 1, 32>>, <<93760, 93791, 1, 32>>,
       <<125184, 125217, 1, 34>> >>

\* The characters the final-sigma rule of str.lower() passes over.
CASE_IGNORABLE ==
    << <<39, 39>>, <<46, 46>>, <<58, 58>>, <<94, 94>>, <<96, 96>>, <<168, 168>>,
       <<173, 173>>, <<175, 175>>, <<180, 180>>, <<183, 184>>, <<688, 879>>, <<884, 885>>,
       <<890, 890>>, <<900, 901>>, <<903, 903>>, <<1155, 1161>>, <<1369, 1369>>, <<1375, 1375>>,
       <<1425, 1469>>, <<1471, 1471>>, <<1473, 1474>>, <<1476, 1477>>, <<1479, 1479>>, <<1524, 1524>>,
       <<1536, 1541>>, <<1552, 1562>>, <<1564, 1564>>, <<1600, 1600>>, <<1611, 1631>>, <<1648, 1648>>,
       <<1750, 1757>>, <<1759, 1768>>, <<1770, 1773>>, <<1807, 1807>>, <<1809, 1809>>, <<1840, 1866>>,
       <<1958, 1968>>, <<2027, 2037>>, <<2042, 2042>>, <<2045, 2045>>, <<2070, 2093>>, <<2137, 2139>>,
       <<2184, 2184>>, <<2192, 2193>>, <<2200, 2207>>, <<2249, 2306>>, <<2362, 2362>>, <<2364, 2364>>,
       <<2369, 2376>>, <<2381, 2381>>, <<2385, 2391>>, <<2402, 2403>>, <<2417, 2417>>, <<2433, 2433>>,
       <<2492, 2492>>, <<2497, 2500>>, <<2509, 2509>>, <<2530, 2531>>, <<2558, 2558>>, <<2561, 2562>>,
       <<2620, 2620>>, <<2625, 2626>>, <<2631, 2632>>, <<2635, 2637>>, <<2641, 2641>>, <<2672, 2673>>,
       <<2677, 2677>>, <<2689, 2690>>, <<2748, 2748>>, <<2753, 2757>>, <<2759, 2760>>, <<2765, 2765>>,
       <<2786, 2787>>, <<2810, 2815>>, <<2817, 2817>>, <<2876, 2876>>, <<2879, 2879>>, <<2881, 2884>>,
       <<2893, 2893>>, <<2901, 2902>>, <<2914, 2915>>, <<2946, 2946>>, <<3008, 3008>>, <<3021, 3021>>,
       <<3072, 3072>>, <<3076, 3076>>, <<3132, 3132>>, <<3134, 3136>>, <<3142, 3144>>, <<3146, 3149>>,
       <<3157, 3158>>, <<3170, 3171>>, <<3201, 3201>>, <<3260, 3260>>, <<3263, 3263>>, <<3270, 3270>>,
       <<3276, 3277>>, <<3298, 3299>>, <<3328, 3329>>, <<3387, 3388>>, <<3393, 3396>>, <<3405, 3405>>,
       <<3426, 3427>>, <<3457, 3457>>, <<3530, 3530>>, <<3538, 3540>>, <<3542, 3542>>, <<3633, 3633>>,
       <<3636, 3642>>, <<3654, 3662>>, <<3761, 3761>>, <<3764, 3772>>, <<3782, 3782>>, <<3784, 3789>>,
       <<3864, 3865>>, <<3893, 3893>>, <<3895, 3895>>, <<3897, 3897>>, <<3953, 3966>>, <<3968, 3972>>,
       <<3974, 3975>>, <<3981, 3991>>, <<3993, 4028>>, <<4038, 4038>>, <<4141, 4144>>, <<4146, 4151>>,
       <<4153, 4154>>, <<4157, 4158>>, <<4184, 4185>>, <<4190, 4192>>, <<4209, 4212>>, <<4226, 4226>>,
       <<4229, 4230>>, <<4237, 4237>>, <<4253, 4253>>, <<4348, 4348>>, <<4957, 4959>>, <<5906, 5908>>,
       <<5938, 5939>>, <<5970, 5971>>, <<6002, 6003>>, <<6068, 6069>>, <<6071, 6077>>, <<6086, 6086>>,
       <<6089, 6099>>, <<6103, 6103>>, <<6109, 6109>>, <<6155, 6159>>, <<6211, 6211>>, <<6277, 6278>>,
       <<6313, 6313>>, <<6432, 6434>>, <<6439, 6440>>, <<6450, 6450>>, <<6457, 6459>>, <<6679, 6680>>,
       <<6683, 6683>>, <<6742, 6742>>, <<6744, 6750>>, <<6752, 6752>>, <<6754, 6754>>, <<6757, 6764>>,
       <<6771, 6780>>, <<6783, 6783>>, <<6823, 6823>>, <<6832, 6862>>, <<6912, 6915>>, <<6964, 6964>>,
       <<6966, 6970>>, <<6972, 6972>>, <<6978, 6978>>, <<7019, 7027>>, <<7040, 7041>>, <<7074, 7077>>,
       <<7080, 7081>>, <<7083, 7085>>, <<7142, 7142>>, <<7144, 7145>>, <<7149, 7149>>, <<7151, 7153>>,
       <<7212, 7219>>, <<7222, 7223>>, <<7288, 7293>>, <<7376, 7378>>, <<7380, 7392>>, <<7394, 7400>>,
       <<7405, 7405>>, <<7412, 7412>>, <<7416, 7417>>, <<7468, 7530>>, <<7544, 7544>>, <<7579, 7679>>,
       <<8125, 8125>>, <<8127, 8129>>, <<8141, 8143>>, <<8157, 8159>>, <<8173, 8175>>, <<8189, 8190>>,
       <<8203, 8207>>, <<8216, 8217>>, <<8228, 8228>>, <<8231, 8231>>, <<8234, 8238>>, <<8288, 8292>>,
       <<8294, 8303>>, <<8305, 8305>>, <<8319, 8319>>, <<8336, 8348>>, <<8400, 8432>>, <<11388, 11389>>,
       <<11503, 11505>>, <<11631, 11631>>, <<11647, 11647>>, <<11744, 11775>>, <<11823, 11823>>, <<12293, 12293>>,
       <<12330, 12333>>, <<12337, 12341>>, <<12347, 12347>>, <<12441, 12446>>, <<12540, 12542>>, <<40981, 40981>>,
       <<42232, 42237>>, <<42508, 42508>>, <<42607, 42610>>, <<42612, 42621>>, <<42623, 42623>>, <<42652, 42655>>,
       <<42736, 42737>>, <<42752, 42785>>, <<42864, 42864>>, <<42888, 42890>>, <<42994, 42996>>, <<43000, 43001>>,
       <<43010, 43010>>, <<43014, 43014>>, <<43019, 43019>>, <<43045, 43046>>, <<43052, 43052>>, <<43204, 43205>>,
       <<43232, 43249>>, <<43263, 43263>>, <<43302, 43309>>, <<43335, 43345>>, <<43392, 43394>>, <<43443, 43443>>,
       <<43446, 43449>>, <<43452, 43453>>, <<43471, 43471>>, <<43493, 43494>>, <<43561, 43566>>, <<43569, 43570>>,
       <<43573, 43574>>, <<43587, 43587>>, <<43596, 43596>>, <<43632, 43632>>, <<43644, 43644>>, <<43696, 43696>>,
       <<43698, 43700>>, <<43703, 43704>>, <<43710, 43711>>, <<43713, 43713>>, <<43741, 43741>>, <<43756, 43757>>,
       <<43763, 43764>>, <<43766, 43766>>, <<43867, 43871>>, <<43881, 43883>>, <<44005, 44005>>, <<44008, 44008>>,
       <<44013, 44013>>, <<64286, 64286>>, <<64434, 64450>>, <<65024, 65039>>, <<65043, 65043>>, <<65056, 65071>>,
       <<65106, 65106>>, <<65109, 65109>>, <<65279, 65279>>, <<65287, 65287>>, <<65294, 65294>>, <<65306, 65306>>,
       <<65342, 65342>>, <<65344, 65344>>, <<65392, 65392>>, <<65438, 65439>>, <<65507, 65507>>, <<65529, 65531>>,
       <<66045, 66045>>, <<66272, 66272>>, <<66422, 66426>>, <<67456, 67461>>, <<67463, 67504>>, <<67506, 67514>>,
       <<68097, 68099>>, <<68101, 68102>>, <<68108, 68111>>, <<68152, 68154>>, <<68159, 68159>>, <<68325, 68326>>,
       <<68900, 68903>>, <<69291, 69292>>, <<69446, 69456>>, <<69506, 69509>>, <<69633, 69633>>, <<69688, 69702>>,
       <<69744, 69744>>, <<69747, 69748>>, <<69759, 69761>>, <<69811, 69814>>, <<69817, 69818>>, <<69821, 69821>>,
       <<69826, 69826>>, <<69837, 69837>>, <<69888, 69890>>, <<69927, 69931>>, <<69933, 69940>>, <<70003, 70003>>,
       <<70016, 70017>>, <<70070, 70078>>, <<70089, 70092>>, <<70095, 70095>>, <<70191, 70193>>, <<70196, 70196>>,
       <<70198, 70199>>, <<70206, 70206>>, <<70367, 70367>>, <<70371, 70378>>, <<70400, 70401>>, <<70459, 70460>>,
       <<70464, 70464>>, <<70502, 70508>>, <<70512, 70516>>, <<70712, 70719>>, <<70722, 70724>>, <<70726, 70726>>,
       <<70750, 70750>>, <<70835, 70840>>, <<70842, 70842>>, <<70847, 70848>>, <<70850, 70851>>, <<71090, 71093>>,
       <<71100, 71101>>, <<71103, 71104>>, <<71132, 71133>>, <<71219, 71226>>, <<71229, 71229>>, <<71231, 71232>>,
       <<71339, 71339>>, <<71341, 71341>>, <<71344, 71349>>, <<71351, 71351>>, <<71453, 71455>>, <<71458, 71461>>,
       <<71463, 71467>>, <<71727, 71735>>, <<71737, 71738>>, <<71995, 71996>>, <<71998, 71998>>, <<72003, 72003>>,
       <<72148, 72151>>, <<72154, 72155>>, <<72160, 72160>>, <<72193, 72202>>, <<72243, 72248>>, <<72251, 72254>>,
       <<72263, 72263>>, <<72273, 72278>>, <<72281, 72283>>, <<72330, 72342>>, <<72344, 72345>>, <<72752, 72758>>,
       <<72760, 72765>>, <<72767, 72767>>, <<72850, 72871>>, <<72874, 72880>>, <<72882, 72883>>, <<72885, 72886>>,
       <<73009, 73014>>, <<73018, 73018>>, <<73020, 73021>>, <<73023, 73029>>, <<73031, 73031>>, <<73104, 73105>>,
       <<73109, 73109>>, <<73111, 73111>>, <<73459, 73460>>, <<78896, 78904>>, <<92912, 92916>>, <<92976, 92982>>,
       <<92992, 92995>>, <<94031, 94031>>, <<94095, 94111>>, <<94176, 94177>>, <<94179, 94180>>, <<110576, 110579>>,
       <<110581, 110587>>, <<110589, 110590>>, <<113821, 113822>>, <<113824, 113827>>, <<118528, 118573>>, <<118576, 118598>>,
       <<119143, 119145>>, <<119155, 119170>>, <<119173, 119179>>, <<119210, 119213>>, <<119362, 119364>>, <<121344, 121398>>,
       <<121403, 121452>>, <<121461, 121461>>, <<121476, 121476>>, <<121499, 121503>>, <<121505, 121519>>, <<122880, 122886>>,
       <<122888, 122904>>, <<122907, 122913>>, <<122915, 122916>>, <<122918, 122922>>, <<123184, 123197>>, <<123566, 123566>>,
       <<123628, 123631>>, <<125136, 125142>>, <<125252, 125259>>, <<127995, 127999>>, <<917505, 917505>>, <<917536, 917631>>,
       <<917760, 917999>> >>

\* The cased characters among those the rule does not pass over.
CASED ==
    << <<65, 90>>, <<97, 122>>, <<170, 170>>, <<181, 181>>, <<186, 186>>, <<192, 214>>,
       <<216, 246>>, <<248, 442>>, <<444, 447>>, <<452, 659>>, <<661, 687>>, <<880, 883>>,
       <<886, 887>>, <<891, 893>>, <<895, 895>>, <<902, 902>>, <<904, 906>>, <<908, 908>>,
       <<910, 929>>, <<931, 1013>>, <<1015, 1153>>, <<1162, 1327>>, <<1329, 1366>>, <<1376, 1416>>,
       <<4256, 4293>>, <<4295, 4295>>, <<4301, 4301>>, <<4304, 4346>>, <<4349, 4351>>, <<5024, 5109>>,
       <<5112, 5117>>, <<7296, 7304>>, <<7312, 7354>>, <<7357, 7359>>, <<7424, 7467>>, <<7531, 7543>>,
       <<7545, 7578>>, <<7680, 7957>>, <<7960, 7965>>, <<7968, 8005>>, <<8008, 8013>>, <<8016, 8023>>,
       <<8025, 8025>>, <<8027, 8027>>, <<8029, 8029>>, <<8031, 8061>>, <<8064, 8116>>, <<8118, 8124>>,
       <<8126, 8126>>, <<8130, 8132>>, <<8134, 8140>>, <<8144, 8147>>, <<8150, 8155>>, <<8160, 8172>>,
       <<8178, 8180>>, <<8182, 8188>>, <<8450, 8450>>, <<8455, 8455>>, <<8458, 8467>>, <<8469, 8469>>,
       <<8473, 8477>>, <<8484, 8484>>, <<8486, 8486>>, <<8488, 8488>>, <<8490, 8493>>, <<8495, 8500>>,
       <<8505, 8505>>, <<8508, 8511>>, <<8517, 8521>>, <<8526, 8526>>, <<8544, 8575>>, <<8579, 8580>>,
       <<9398, 9449>>, <<11264, 11387>>, <<11390, 11492>>, <<11499, 11502>>, <<11506, 11507>>, <<11520, 11557>>,
       <<11559, 11559>>, <<11565, 11565>>, <<42560, 42605>>, <<42624, 42651>>, <<42786, 42863>>, <<42865, 42887>>,
       <<42891, 42894>>, <<42896, 42954>>, <<42960, 42961>>, <<42963, 42963>>, <<42965, 42969>>, <<42997, 42998>>,
       <<43002, 43002>>, <<43824, 43866>>, <<43872, 43880>>, <<43888, 43967>>, <<64256, 64262>>, <<64275, 64279>>,
       <<65313, 65338>>, <<65345, 65370>>, <<66560, 66639>>, <<66736, 66771>>, <<66776, 66811>>, <<66928, 66938>>,
       <<66940, 66954>>, <<66956, 66962>>, <<66964, 66965>>, <<66967, 66977>>, <<66979, 66993>>, <<66995, 67001>>,
       <<67003, 67004>>, <<68736, 68786>>, <<68800, 68850>>, <<71840, 71903>>, <<93760, 93823>>, <<119808, 119892>>,
       <<119894, 119964>>, <<119966, 119967>>, <<119970, 119970>>, <<119973, 119974>>, <<119977, 119980>>, <<119982, 119993>>,
       <<119995, 119995>>, <<119997, 120003>>, <<120005, 120069>>, <<120071, 120074>>, <<120077, 120084>>, <<120086, 120092>>,
       <<120094, 120121>>, <<120123, 120126>>, <<120128, 120132>>, <<120134, 120134>>, <<120138, 120144>>, <<120146, 120485>>,
       <<120488, 120512>>, <<120514, 120538>>, <<120540, 120570>>, <<120572, 120596>>, <<120598, 120628>>, <<120630, 120654>>,
       <<120656, 120686>>, <<120688, 120712>>, <<120714, 120744>>, <<120746, 120770>>, <<120772, 120779>>, <<122624, 122633>>,
       <<122635, 122654>>, <<125184, 125251>>, <<127280, 127305>>, <<127312, 127337>>, <<127344, 127369>> >>

\* The decimal digits of every script, zero to nine: the characters float()
\* reads as digits.
DECIMAL ==
    << <<48, 57>>, <<1632, 1641>>, <<1776, 1785>>, <<1984, 1993>>, <<2406, 2415>>, <<2534, 2543>>,
       <<2662, 2671>>, <<2790, 2799>>, <<2918, 2927>>, <<3046, 3055>>, <<3174, 3183>>, <<3302, 3311>>,
       <<3430, 3439>>, <<3558, 3567>>, <<3664, 3673>>, <<3792, 3801>>, <<3872, 3881>>, <<4160, 4169>>,
       <<4240, 4249>>, <<6112, 6121>>, <<6160, 6169>>, <<6470, 6479>>, <<6608, 6617>>, <<6784, 6793>>,
       <<6800, 6809>>, <<6992, 7001>>, <<7088, 7097>>, <<7232, 7241>>, <<7248, 7257>>, <<42528, 42537>>,
       <<43216, 43225>>, <<43264, 43273>>, <<43472, 43481>>, <<43504, 43513>>, <<43600, 43609>>, <<44016, 44025>>,
       <<65296, 65305>>, <<66720, 66729>>, <<68912, 68921>>, <<69734, 69743>>, <<69872, 69881>>, <<69942, 69951>>,
       <<70096, 70105>>, <<70384, 70393>>, <<70736, 70745>>, <<70864, 70873>>, <<71248, 71257>>, <<71360, 71369>>,
       <<71472, 71481>>, <<71904, 71913>>, <<72016, 72025>>, <<72784, 72793>>, <<73040, 73049>>, <<73120, 73129>>,
       <<92768, 92777>>, <<92864, 92873>>, <<93008, 93017>>, <<120782, 120791>>, <<120792, 120801>>, <<120802, 120811>>,
       <<120812, 120821>>, <<120822, 120831>>, <<123200, 123209>>, <<123632, 123641>>, <<125264, 125273>>, <<130032, 130041>> >>

\* The index of the row of a table, sorted and with rows first..last apart
\* from each other, that holds the character c; 0 when no row does.
RECURSIVE Row(_, _, _, _)
Row(table, c, lo, hi) ==
    IF lo > hi THEN 0
    ELSE IF c < table[(lo + hi) \div 2][1] THEN Row(table, c, lo, (lo + hi) \div 2 - 1)
    ELSE IF c > table[(lo + hi) \div 2][2] THEN Row(table, c, (lo + hi) \div 2 + 1, hi)
    ELSE (lo + hi) \div 2

InTable(table, c) == Row(table, c, 1, Len(table)) # 0

\* str.isspace() of one character
IsSpace(c) == InTable(WHITESPACE, c)

CAPITAL_SIGMA == 931
FINAL_SIGMA == 962
\* The capital I with a dot above, which str.lower() turns into two
\* characters: i and the combining dot above.
CAPITAL_DOTTED_I == 304
SMALL_DOTTED_I == <<105, 775>>

\* str.lower() of a text of the one character c
LowerCharAt(c, r) ==
    IF c = CAPITAL_DOTTED_I THEN SMALL_DOTTED_I
    ELSE IF r # 0 /\ (c - LOWER[r][1]) % LOWER[r][3] = 0 THEN <<c + LOWER[r][4]>>
    ELSE <<c>>
LowerChar(c) == CHOOSE t \in {LowerCharAt(c, r) : r \in {Row(LOWER, c, 1, Len(LOWER))}} : TRUE

\* Whether the capital sigma at s[i] ends a word: a cased character stands
\* before it and none after it, the characters of CASE_IGNORABLE passed over.
FinalSigma(s, i) ==
    /\ \E j \in 1..(i - 1) :
          /\ InTable(CASED, s[j])
          /\ \A k \in (j + 1)..(i - 1) : InTable(CASE_IGNORABLE, s[k])
    /\ ~\E j \in (i + 1)..Len(s) :
          /\ InTable(CASED, s[j])
          /\ \A k \in (i + 1)..(j - 1) : InTable(CASE_IGNORABLE, s[k])

\* str.lower() of the characters lo to hi of s
RECURSIVE LowerRange(_, _, _)
LowerRange(s, lo, hi) ==
    IF lo > hi THEN <<>>
    ELSE IF lo = hi
    THEN (IF s[lo] = CAPITAL_SIGMA /\ FinalSigma(s, lo) THEN <<FINAL_SIGMA>>
          ELSE LowerChar(s[lo]))
    ELSE LowerRange(s, lo, (lo + hi) \div 2) \o LowerRange(s, (lo + hi) \div 2 + 1, hi)

LowerText(s) == LowerRange(s, 1, Len(s))

\* str.lower()
Lower(s) == Apply(LowerText, s)

\* The characters of s from the first to the last of those at keep.
Between(s, keep) ==
    IF keep = {} THEN <<>>
    ELSE SubSeq(s, CHOOSE i \in keep : \A j \in keep : i <= j,
                   CHOOSE i \in keep : \A j \in keep : j <= i)

\* Drop the leading and the trailing characters that are in the table.
StripText(table, s) ==
    CHOOSE r \in { Between(s, keep) :
                   keep \in {{i \in 1..Len(s) : ~InTable(table, s[i])}} } : TRUE
StripOf(table, s) == CHOOSE r \in {StripText(table, v) : v \in {s}} : TRUE

\* str.strip(): drop the leading and the trailing whitespace
Strip(s) == StripOf(WHITESPACE, s)

\* s[:n]
Take(s, n) == SubSeq(s, 1, IF Len(s) < n THEN Len(s) ELSE n)

\* sub in s
Contains(s, sub) ==
    \E i \in 0..(Len(s) - Len(sub)) : SubSeq(s, i + 1, i + Len(sub)) = sub

\* str.isalpha(): non-empty and letters only
IsAlpha(s) ==
    /\ Len(s) > 0
    /\ \A i \in 1..Len(s) : InTable(ALPHA, s[i])

\* Python's None, and a dictionary key that is absent.
None == [tag |-> "None"]

\* ------------------------------------------------------------------ JSON

\* json.dumps of a list of source dicts: the text is modelled as the list of
\* the objects' key/value pairs in insertion order.
JsonDumps(sources) ==
    [i \in 1..Len(sources) |->
        << <<"source", sources[i].source>>,
           <<"relevance", sources[i].relevance>>,
           <<"preview", sources[i].preview>> >>]

\* json.loads of such a text: each object becomes a dict again.
JsonLoads(text) ==
    [i \in 1..Len(text) |->
        [source |-> text[i][1][2],
         relevance |-> text[i][2][2],
         preview |-> text[i][3][2]]]

\* ------------------------------------------------------------ CacheManager

\* The questions asked; two of them differ in case and surrounding blanks only.
Questions == { <<104, 105>> (* "hi" *), <<9, 72, 105, 10>> (* "\tHi\n" *), <<121, 111>> (* "yo" *) }

\* The key taken from the question as it was typed.
HashQueryMutant(query) == query

\* _hash_query: md5 of the lower-cased, stripped question.
HashQuery(query) == Strip(Lower(query))

Keys == {HashQuery(q) : q \in Questions}

\* datetime.now() - cached_time < timedelta(hours=ttl_hours), with the
\* comparison turned round.
MemFreshMutant(cached_time, t, ttl) == t - cached_time > ttl
\* The in-process freshness test of CacheManager.get, with every entry
\* taken to be expired.
MemExpiredMutant(cached_time, t, ttl) == t - cached_time < 0
\* datetime.now() - cached_time < timedelta(hours=ttl_hours)
MemFresh(cached_time, t, ttl) == t - cached_time < ttl

\* datetime(created_at) > datetime('now', '-24 hours')
DbFresh(created_at, t) == created_at > t - DB_WINDOW_HOURS

VARIABLES
    now,            \* the wall clock, in hours
    ttl_hours,      \* cache_manager.ttl_hours
    memory_cache,   \* cache_manager.memory_cache: key -> entry, or None
    response_cache, \* table response_cache: key -> row, or None
    conversations,  \* table conversations: id -> row, or None
    sentiment_log,  \* table sentiment_log, in insertion order
    analytics,      \* table analytics, in insertion order
    vector_store,   \* vs_manager.vector_store: the store, or None
    knowledge_base, \* table knowledge_base: document id -> row, or None
    index_chunks,   \* the Pinecone index: "source" metadata -> number of chunks
    feedback,       \* table feedback, in insertion order
    temp_files,     \* the filenames present in ./temp
    pc,             \* where the /query request in progress stands, or "idle"
    req,            \* the locals of the /query request in progress
    resp,           \* the outcome of the last /query request (history)
    answered,       \* question -> when a miss-path /query last succeeded (history)
    served,         \* conversation ids of the /query requests that succeeded (history)
    written,        \* keys that set() has been called with (history)
    last_miss,      \* key -> the answer and the sources of the last miss-path
                    \* /query that returned a response, or None (history)
    pending,        \* customers whose /query request the server has accepted
                    \* and whose handler has not started yet
    lastcall        \* the last call of a CacheManager method or of an endpoint
                    \* other than /query, and what it returned (history)

cacheVars == <<now, ttl_hours, memory_cache, response_cache>>
kbVars == <<knowledge_base, index_chunks, feedback, temp_files>>
storeVars == <<conversations, sentiment_log, analytics, vector_store, kbVars>>
reqVars == <<pc, req, resp, answered, served>>
histVars == <<written, lastcall, pending, last_miss>>
vars == <<now, ttl_hours, memory_cache, response_cache, conversations,
          sentiment_log, analytics, vector_store, knowledge_base,
          index_chunks, feedback, temp_files, pc, req, resp, answered,
          served, written, pending, last_miss, lastcall>>

\* The UPDATE of a durable hit, setting the row's creation time as well.
TouchRowMutant(row, t) ==
    [row EXCEPT !.hit_count = row.hit_count + 1, !.last_accessed = t,
                !.created_at = t]
\* The UPDATE of a durable hit, leaving the counter alone.
TouchRowNoCount(row, t) == [row EXCEPT !.last_accessed = t]
\* UPDATE response_cache SET hit_count = hit_count + 1, last_accessed = ?
TouchRow(row, t) ==
    [row EXCEPT !.hit_count = row.hit_count + 1, !.last_accessed = t]

\* CacheManager.get.  db_ok is whether the sqlite statements of this call
\* succeed; a failure is caught and logged.  The result is the value returned
\* and the two tiers as the call leaves them.
CacheGet(mem, db, ttl, t, query, db_ok) ==
    LET query_hash == HashQuery(query)
        in_mem == mem[query_hash] # None
        fresh == in_mem /\ MemFresh(mem[query_hash].timestamp, t, ttl)
        mem2 == IF in_mem /\ ~fresh
                THEN [mem EXCEPT ![query_hash] = None]
                ELSE mem
        row == db[query_hash]
        found == row # None /\ DbFresh(row.created_at, t)
    IN  IF fresh
        THEN [result |-> mem[query_hash].data, tier |-> "memory",
              memory |-> mem, db |-> db]
        ELSE IF db_ok /\ found
        THEN [result |-> [response |-> row.response,
                          sources |-> JsonLoads(row.sources),
                          from_cache |-> TRUE],
              tier |-> "durable",
              memory |-> mem2,
              db |-> [db EXCEPT ![query_hash] = TouchRow(row, t)]]
        ELSE [result |-> None, tier |-> "none", memory |-> mem2, db |-> db]

\* CacheManager.set.  The in-process entry is stored first; a failure of the
\* durable write is caught and logged.
CacheSet(mem, db, t, query, response, sources, db_ok) ==
    LET query_hash == HashQuery(query)
    IN  [memory |-> [mem EXCEPT ![query_hash] =
                        [data |-> [response |-> response, sources |-> sources,
                                   from_cache |-> FALSE],
                         timestamp |-> t]],
         db |-> IF db_ok
                THEN [db EXCEPT ![query_hash] =
                        [query |-> query, response |-> response,
                         sources |-> JsonDumps(sources), created_at |-> t,
                         hit_count |-> 0, last_accessed |-> t]]
                ELSE db]

\* ----------------------------------------------------- replies and parsing

\* The characters of the texts the code compares with or puts together.
PLUS == 43
MINUS == 45
POINT == 46
DIGIT_ZERO == 48
UNDERSCORE == 95
BAR == 124
BLANK == 32
\* "inf", "infinity", "nan"
INF == <<105, 110, 102>>
INFINITY == <<105, 110, 102, 105, 110, 105, 116, 121>>
NAN == <<110, 97, 110>>

\* The value of a decimal digit of any script, -1 for any other character.
DigitValueAt(c, r) == IF r = 0 THEN -1 ELSE c - DECIMAL[r][1]
DigitValue(c) == CHOOSE d \in {DigitValueAt(c, r) : r \in {Row(DECIMAL, c, 1, Len(DECIMAL))}} : TRUE

\* A digit 0 to 9 of ASCII.
IsDigit(c) == DIGIT_ZERO <= c /\ c <= DIGIT_ZERO + 9

\* str.split(sep): the runs of characters between the places of sep.
SplitAt(s, sep, at) ==
    [j \in 1..(Cardinality(at) + 1) |->
        SubSeq(s,
               IF j = 1 THEN 1
               ELSE 1 + CHOOSE p \in at : Cardinality({q \in at : q < p}) = j - 2,
               IF j > Cardinality(at) THEN Len(s)
               ELSE (CHOOSE p \in at : Cardinality({q \in at : q < p}) = j - 1) - 1)]
Split(s, sep) ==
    CHOOSE r \in { SplitAt(v, sep, {i \in 1..Len(v) : v[i] = sep}) : v \in {s} } : TRUE

\* What float() makes of a text before it reads it: a whitespace character
\* beyond ASCII becomes a blank, a decimal digit the ASCII digit of its value.
ToAsciiChar(c) ==
    IF c < 127 THEN c
    ELSE IF IsSpace(c) THEN BLANK
    ELSE IF DigitValue(c) >= 0 THEN DIGIT_ZERO + DigitValue(c)
    ELSE c
ToAscii(text) == [i \in 1..Len(text) |-> ToAsciiChar(text[i])]

\* The whitespace of ASCII, which float() skips around the number.
ASCII_SPACE == << <<9, 13>>, <<32, 32>> >>

\* The lower case of a letter of ASCII.
AsciiLower(s) == [i \in 1..Len(s) |-> IF 65 <= s[i] /\ s[i] <= 90 THEN s[i] + 32 ELSE s[i]]

\* A run of decimal digits in which single underscores may stand between
\* two digits.
IsDigitGroup(p) ==
    /\ Len(p) > 0
    /\ IsDigit(p[1])
    /\ IsDigit(p[Len(p)])
    /\ \A i \in 1..Len(p) :
          IsDigit(p[i]) \/ (p[i] = UNDERSCORE /\ IsDigit(p[i - 1]) /\ IsDigit(p[i + 1]))

\* The digits of a digit group, as numbers 0 to 9.
GroupDigits(p) ==
    LET d == SelectSeq(p, IsDigit) IN [i \in 1..Len(d) |-> d[i] - DIGIT_ZERO]

\* Drop the leading zeros of a run of digits, decimal or binary.
DropZeros(d) ==
    IF \A i \in 1..Len(d) : d[i] = 0 THEN <<>>
    ELSE SubSeq(d, CHOOSE i \in 1..Len(d) : d[i] # 0 /\ \A j \in 1..(i - 1) : d[j] = 0,
                Len(d))

\* The number of zeros a run of digits ends with.
TrailingZeros(d) ==
    IF \A i \in 1..Len(d) : d[i] = 0 THEN Len(d)
    ELSE Len(d) - (CHOOSE i \in 1..Len(d) : d[i] # 0 /\ \A j \in (i + 1)..Len(d) : d[j] = 0)

\* n zeros
Zeros(n) == [i \in 1..n |-> 0]

\* The value of a short run of decimal digits.
RECURSIVE DigitsValue(_)
DigitsValue(d) ==
    IF d = <<>> THEN 0
    ELSE DigitsValue(SubSeq(d, 1, Len(d) - 1)) * 10 + d[Len(d)]

\* A natural number of any size is the sequence of its digits to the base
\* 2^15, the highest first and not zero; zero is the empty sequence.
LIMB_BITS == 15
BASE == 32768
\* POW2[j + 1] is 2^j, POW10[j + 1] is 10^j.
POW2 == <<1, 2, 4, 8, 16, 32, 64, 128, 256, 512, 1024, 2048, 4096, 8192, 16384, 32768>>
POW10 == <<1, 10, 100, 1000, 10000>>

\* One digit of n times k, the lowest not yet taken, with the carry.
MulStep(st) ==
    [st EXCEPT !.at = @ - 1,
               !.carry = (st.n[st.at] * st.k + @) \div BASE,
               !.out = <<(st.n[st.at] * st.k + st.carry) % BASE>> \o @]

\* n * k + c, for k up to 10^4 and c below the base
MulAdd(n, k, c) ==
    CHOOSE r \in { IF st.carry = 0 THEN st.out ELSE <<st.carry>> \o st.out :
                   st \in {Iterate(MulStep, [n |-> n, k |-> k, at |-> Len(n),
                                             carry |-> c, out |-> <<>>],
                                   Len(n))} } : TRUE

\* One digit of n by k, the highest not yet taken, with the remainder.
DivStep(st) ==
    [st EXCEPT !.at = @ + 1,
               !.rem = (@ * BASE + st.n[st.at]) % st.k,
               !.out = @ \o <<(st.rem * BASE + st.n[st.at]) \div st.k>>]

\* The quotient and the remainder of n by k, for k up to 10^4.
DivMod(n, k) ==
    CHOOSE r \in { [quot |-> DropZeros(st.out), rem |-> st.rem] :
                   st \in {Iterate(DivStep, [n |-> n, k |-> k, at |-> 1,
                                             rem |-> 0, out |-> <<>>],
                                   Len(n))} } : TRUE

\* The number of binary digits of n.
Bits(n) ==
    IF Len(n) = 0 THEN 0
    ELSE LIMB_BITS * (Len(n) - 1) + Cardinality({j \in 1..LIMB_BITS : POW2[j] <= n[1]})

\* The binary digit of n that stands for 2^t.
Bit(n, t) ==
    IF t >= LIMB_BITS * Len(n) THEN 0
    ELSE (n[Len(n) - t \div LIMB_BITS] \div POW2[(t % LIMB_BITS) + 1]) % 2

\* Whether the binary digits of n below 2^t are all zero.
LowZero(n, t) ==
    /\ \A i \in 1..Len(n) : i > Len(n) - t \div LIMB_BITS => n[i] = 0
    /\ t < LIMB_BITS * Len(n) =>
          n[Len(n) - t \div LIMB_BITS] % POW2[(t % LIMB_BITS) + 1] = 0

\* n divided by 2^k, the remainder dropped.
ShiftRight(n, k) ==
    LET m == SubSeq(n, 1, Len(n) - k \div LIMB_BITS)
        j == k % LIMB_BITS
    IN  DropZeros([i \in 1..Len(m) |->
            (IF i > 1 THEN (m[i - 1] % POW2[j + 1]) * POW2[LIMB_BITS - j + 1] ELSE 0)
            + m[i] \div POW2[j + 1]])

\* n * 2^k
ShiftLeft(n, k) ==
    LET m == <<0>> \o n
        j == k % LIMB_BITS
    IN  IF Len(n) = 0 THEN <<>>
        ELSE DropZeros([i \in 1..Len(m) |->
                 (m[i] % POW2[LIMB_BITS - j + 1]) * POW2[j + 1]
                 + (IF i < Len(m) THEN m[i + 1] \div POW2[LIMB_BITS - j + 1] ELSE 0)])
             \o Zeros(k \div LIMB_BITS)

\* n + 1
Increment(n) ==
    IF \A i \in 1..Len(n) : n[i] = BASE - 1 THEN <<1>> \o Zeros(Len(n))
    ELSE LET k == CHOOSE i \in 1..Len(n) :
                     n[i] # BASE - 1 /\ \A j \in (i + 1)..Len(n) : n[j] = BASE - 1
         IN  [i \in 1..Len(n) |-> IF i < k THEN n[i] ELSE IF i = k THEN n[i] + 1 ELSE 0]

\* The whole number nearest to n / 2^cut, the even one of two that are
\* equally near; more says that the number is a little above n.
RoundShift(n, cut, more) ==
    IF cut = 0 THEN n
    ELSE IF /\ Bit(n, cut - 1) = 1
            /\ more \/ ~LowZero(n, cut - 1) \/ Bit(n, cut) = 1
         THEN Increment(ShiftRight(n, cut))
         ELSE ShiftRight(n, cut)

\* The number of zeros the binary digits of n end with, n not zero.
TrailingZeroBits(n) ==
    LIMB_BITS * TrailingZeros(n)
    + Cardinality({j \in 1..LIMB_BITS : n[Len(n) - TrailingZeros(n)] % POW2[j + 1] = 0})

\* A float is a double.  A finite one is (-1)^neg * mant * 2^exp with mant
\* an odd number (zero: mant 0, exp 0); the other kinds are the infinities
\* and not-a-number.
MANTISSA_BITS == 53
\* The highest binary digit of the largest double stands for 2^1023, the
\* lowest one of the smallest for 2^-1074.
MAX_EXP == 1023
MIN_EXP == -1074

Zero(neg) == [kind |-> "finite", neg |-> neg, mant |-> <<>>, exp |-> 0]
Inf(neg) == [kind |-> "inf", neg |-> neg, mant |-> <<>>, exp |-> 0]
NaN == [kind |-> "nan", neg |-> FALSE, mant |-> <<>>, exp |-> 0]

\* The double (-1)^neg * n * 2^exp, for any n that is one.
Finite(neg, n, exp) ==
    IF Len(n) = 0 THEN Zero(neg)
    ELSE [kind |-> "finite", neg |-> neg,
          mant |-> ShiftRight(n, TrailingZeroBits(n)),
          exp |-> exp + TrailingZeroBits(n)]

\* The double nearest to (-1)^neg * n * 2^exp, or to a number a little
\* above it (more): 53 binary digits are kept from the highest on, none
\* below 2^-1074, the number goes to the even neighbour when it lies
\* halfway, and to an infinity from 2^1024 - 2^970 on.
Nearest(neg, n, exp, more) ==
    LET wide == Bits(n) - MANTISSA_BITS
        deep == MIN_EXP - exp
        cut == IF wide > deep THEN (IF wide > 0 THEN wide ELSE 0)
               ELSE (IF deep > 0 THEN deep ELSE 0)
    IN  CHOOSE x \in { IF Bits(r) + exp + cut - 1 > MAX_EXP THEN Inf(neg)
                       ELSE Finite(neg, r, exp + cut) :
                       r \in {RoundShift(n, cut, more)} } : TRUE

\* One more decimal digit taken into the number.
DigitStep(st) ==
    [st EXCEPT !.n = MulAdd(@, 10, st.digits[st.at]), !.at = @ + 1]

\* The number a run of decimal digits stands for.
FromDigits(digits) ==
    Iterate(DigitStep, [n |-> <<>>, digits |-> digits, at |-> 1], Len(digits)).n

Times10000(n) == MulAdd(n, 10000, 0)

\* n * 10^e
TimesPow10(n, e) ==
    CHOOSE r \in { MulAdd(m, POW10[(e % 4) + 1], 0) :
                   m \in {Iterate(Times10000, n, e \div 4)} } : TRUE

\* st.n divided by k; st.more tells whether anything was left over.
DivideBy(st, k) ==
    CHOOSE r \in { [n |-> d.quot, more |-> st.more \/ d.rem # 0] :
                   d \in {DivMod(st.n, k)} } : TRUE
Over10000(st) == DivideBy(st, 10000)

\* n / 10^e
OverPow10(n, e) ==
    CHOOSE r \in { DivideBy(st, POW10[(e % 4) + 1]) :
                   st \in {Iterate(Over10000, [n |-> n, more |-> FALSE], e \div 4)} } : TRUE

\* The binary digits after the point that decide the double nearest to a
\* number of at least 10^-w: two more than the double keeps after those
\* of 10^-w, which are fewer than 10w/3 + 1, and none below 2^-1075; in
\* whole digits to the base 2^15.
ScaleLimbs(w) ==
    LET need == IF w <= 0 THEN MANTISSA_BITS + 2
                ELSE MANTISSA_BITS + 2 + (10 * w) \div 3
        most == 1 - MIN_EXP
    IN  ((IF need > most THEN most ELSE need) + LIMB_BITS - 1) \div LIMB_BITS

\* The double nearest to (-1)^neg * digits * 10^exp10, the digits being a run
\* of decimal digits that does not start with 0.  A number of more than 310
\* digits before the point is above every double, one below 10^-324 rounds
\* to zero.
ToDouble(neg, digits, exp10) ==
    IF Len(digits) = 0 THEN Zero(neg)
    ELSE IF Len(digits) + exp10 > 310 THEN Inf(neg)
    ELSE IF Len(digits) + exp10 < -324 THEN Zero(neg)
    ELSE IF exp10 >= 0
    THEN CHOOSE x \in { Nearest(neg, n, 0, FALSE) :
                        n \in {TimesPow10(FromDigits(digits), exp10)} } : TRUE
    ELSE CHOOSE x \in { Nearest(neg, q.n, 0 - LIMB_BITS * s, q.more) :
                        s \in {ScaleLimbs(1 - exp10 - Len(digits))},
                        q \in {OverPow10(FromDigits(digits)
                                         \o Zeros(ScaleLimbs(1 - exp10 - Len(digits))),
                                         0 - exp10)} } : TRUE

NotAFloat == [ok |-> FALSE, value |-> Zero(FALSE)]

\* float() of a text of ASCII without blanks around it: a sign, then inf,
\* infinity or nan in any case, or digits with an optional point and an
\* optional exponent; any other text is a ValueError.
ParseNumber(t) ==
    LET signed == Len(t) > 0 /\ t[1] \in {PLUS, MINUS}
        neg == signed /\ t[1] = MINUS
        body == IF signed THEN Tail(t) ELSE t
        word == AsciiLower(body)
        marks == {i \in 1..Len(body) : word[i] = 101}
        mark == CHOOSE i \in marks : TRUE
        number == IF marks = {} THEN body ELSE SubSeq(body, 1, mark - 1)
        exponent == IF marks = {} THEN <<>> ELSE SubSeq(body, mark + 1, Len(body))
        exp_signed == Len(exponent) > 0 /\ exponent[1] \in {PLUS, MINUS}
        exp_neg == exp_signed /\ exponent[1] = MINUS
        exp_group == IF exp_signed THEN Tail(exponent) ELSE exponent
        parts == Split(number, POINT)
        whole == parts[1]
        frac == IF Len(parts) = 2 THEN parts[2] ELSE <<>>
        ok == /\ Cardinality(marks) <= 1
              /\ marks # {} => IsDigitGroup(exp_group)
              /\ Len(parts) <= 2
              /\ whole = <<>> \/ IsDigitGroup(whole)
              /\ frac = <<>> \/ IsDigitGroup(frac)
              /\ whole # <<>> \/ frac # <<>>
        frac_digits == GroupDigits(frac)
        digits == DropZeros(GroupDigits(whole) \o frac_digits)
        exp_digits == DropZeros(GroupDigits(exp_group))
        exp_value == IF exp_neg THEN 0 - DigitsValue(exp_digits)
                     ELSE DigitsValue(exp_digits)
    IN  IF word = INF \/ word = INFINITY
        THEN [ok |-> TRUE, value |-> Inf(neg)]
        ELSE IF word = NAN
        THEN [ok |-> TRUE, value |-> NaN]
        ELSE IF ~ok THEN NotAFloat
        ELSE IF digits = <<>> THEN [ok |-> TRUE, value |-> Zero(neg)]
        ELSE IF Len(exp_digits) > 8
        THEN [ok |-> TRUE, value |-> IF exp_neg THEN Zero(neg) ELSE Inf(neg)]
        ELSE [ok |-> TRUE,
              value |-> ToDouble(neg, digits, exp_value - Len(frac_digits))]

\* float(text): the blanks around the number are skipped.
ParseFloat(text) == Apply(ParseNumber, StripOf(ASCII_SPACE, ToAscii(text)))

\* The lowest four decimal digits of st.n are put before those found.
DecimalStep(st) ==
    CHOOSE r \in { [n |-> d.quot,
                    digits |-> << d.rem \div 1000, (d.rem \div 100) % 10,
                                  (d.rem \div 10) % 10, d.rem % 10 >> \o st.digits] :
                   d \in {DivMod(st.n, 10000)} } : TRUE

\* The decimal digits of n, three of them at least: four of them hold more
\* than 13 binary digits.
DecimalDigits(n) ==
    CHOOSE r \in { IF Len(d) < 3 THEN Zeros(3 - Len(d)) \o d ELSE d :
                   d \in {DropZeros(Iterate(DecimalStep, [n |-> n, digits |-> <<>>],
                                            Bits(n) \div 13 + 1).digits)} } : TRUE

\* The characters of a run of decimal digits.
DigitChars(d) == [i \in 1..Len(d) |-> DIGIT_ZERO + d[i]]

\* The hundredths of the finite double x: the whole number nearest to
\* |x| * 100, the even one of two that are equally near.
Hundredths(x) ==
    CHOOSE h \in { IF x.exp >= 0 THEN ShiftLeft(n, x.exp)
                   ELSE RoundShift(n, 0 - x.exp, FALSE) :
                   n \in {MulAdd(x.mant, 100, 0)} } : TRUE

\* format(x, ".2f")
FormatFixed2(x) ==
    IF x.kind = "nan" THEN NAN
    ELSE IF x.kind = "inf" THEN (IF x.neg THEN <<MINUS>> ELSE <<>>) \o INF
    ELSE CHOOSE t \in { (IF x.neg THEN <<MINUS>> ELSE <<>>)
                        \o DigitChars(SubSeq(d, 1, Len(d) - 2)) \o <<POINT>>
                        \o DigitChars(SubSeq(d, Len(d) - 1, Len(d))) :
                        d \in {DecimalDigits(Hundredths(x))} } : TRUE

Format2f(x) == Apply(FormatFixed2, x)

\* f"{label} ({score:.2f})"
SentimentText(s) == s.sentiment \o <<BLANK, 40>> \o Format2f(s.score) \o <<41>>

\* A float bound to a REAL column: sqlite3 stores not-a-number as NULL and
\* minus zero as zero.
SqlNull == [kind |-> "null", neg |-> FALSE, mant |-> <<>>, exp |-> 0]
SqlReal(x) ==
    IF x.kind = "nan" THEN SqlNull
    ELSE IF x.kind = "finite" /\ Len(x.mant) = 0 THEN Zero(FALSE)
    ELSE x

\* A call of the external model either raises or returns a message with
\* this content.
Raises == [kind |-> "raise"]
Says(content) == [kind |-> "content", content |-> content]

NEUTRAL == <<110, 101, 117, 116, 114, 97, 108>> (* "neutral" *)
EN == <<101, 110>> (* "en" *)
KNOWLEDGE_BASE == <<107, 110, 111, 119, 108, 101, 100, 103, 101, 95, 98, 97, 115, 101>> (* "knowledge_base" *)
DIRECT_ANSWER == <<100, 105, 114, 101, 99, 116, 95, 97, 110, 115, 119, 101, 114>> (* "direct_answer" *)
WEB_SEARCH == <<119, 101, 98, 95, 115, 101, 97, 114, 99, 104>> (* "web_search" *)
YES == <<121, 101, 115>> (* "yes" *)

\* The default of SentimentAnalyzer.analyze: ("neutral", 0.0).
DefaultSentiment == [sentiment |-> NEUTRAL, score |-> Zero(FALSE)]

\* The body of analyze once the reply is split at "|".
AnalyzeParts(parts) ==
    IF Len(parts) = 2
    THEN LET f == ParseFloat(Strip(parts[2]))
         IN  IF f.ok
             THEN [sentiment |-> Lower(Strip(parts[1])), score |-> f.value]
             ELSE DefaultSentiment
    ELSE DefaultSentiment

\* SentimentAnalyzer.analyze: (label, score)
Analyze(reply) ==
    IF reply.kind = "raise" THEN DefaultSentiment
    ELSE Apply(AnalyzeParts, Split(Strip(reply.content), BAR))

\* Whether analyze fell back to its default: the call raised, or the reply
\* did not parse.
AnalyzeFailed(reply) ==
    \/ reply.kind = "raise"
    \/ LET parts == Split(Strip(reply.content), BAR)
       IN  Len(parts) # 2 \/ ~ParseFloat(Strip(parts[2])).ok

\* LanguageDetector.detect_language
DetectLanguage(reply) ==
    IF reply.kind = "raise" THEN EN
    ELSE LET lang_code == Take(Lower(Strip(reply.content)), LANG_CODE_LEN)
         IN  IF IsAlpha(lang_code) THEN lang_code ELSE EN

\* A reply of the follow-up model: it raises, or its content is not JSON, or
\* it is a JSON value: a list of items or an object.
JsonStr(s) == [type |-> "string", value |-> s]
JsonNull == [type |-> "null"]
JsonList(items) == [valid |-> TRUE, type |-> "list", items |-> items]
JsonObject == [valid |-> TRUE, type |-> "object", items |-> <<>>]
NotJson == [valid |-> FALSE, type |-> "none", items |-> <<>>]

\* FollowUpGenerator.generate: json.loads(content), and questions[:3] when
\* that is a list; [] when the call raises or the content is not JSON.
Generate(reply) ==
    IF reply.kind = "raise" THEN <<>>
    ELSE IF ~reply.content.valid THEN <<>>
    ELSE IF reply.content.type = "list"
         THEN Take(reply.content.items, MAX_FOLLOWUPS)
         ELSE <<>>

\* pydantic's validation of QueryResponse.suggested_questions: List[str].
ValidSuggested(questions) ==
    \A i \in 1..Len(questions) : questions[i].type = "string"

\* RAGAgentReasoner.route_query: the tool named by the reply.
RouteTool(content) == Lower(Strip(content))

UsesRetrievalMutant(tool) == tool \in {KNOWLEDGE_BASE, DIRECT_ANSWER, WEB_SEARCH}

\* tool in ["knowledge_base", "direct_answer"]
UsesRetrieval(tool) == tool \in {KNOWLEDGE_BASE, DIRECT_ANSWER}

\* RAGAgentReasoner.grade_documents: "yes" in response.content.lower()
IsRelevant(content) == Contains(Lower(content), YES)

\* not is_relevant and len(agent.reasoning_steps) < 5, with the bound on the
\* trace set to the three entries a first grading has already appended.
ShouldRetryMutant(is_relevant, reasoning_steps) ==
    ~is_relevant /\ Len(reasoning_steps) < 3
\* not is_relevant and len(agent.reasoning_steps) < 5
ShouldRetry(is_relevant, reasoning_steps) ==
    ~is_relevant /\ Len(reasoning_steps) < RETRY_TRACE_LIMIT

\* The context block and the source list built from the first retrieval.
ContextFirst(retrieved) ==
    [i \in 1..Len(retrieved) |->
        [fmt |-> "scored", source |-> retrieved[i].source,
         score |-> retrieved[i].score, text |-> retrieved[i].page_content]]
SourcesFirst(retrieved) ==
    [i \in 1..Len(retrieved) |->
        [source |-> retrieved[i].source, relevance |-> retrieved[i].score,
         preview |-> Take(retrieved[i].page_content, PREVIEW_CHARS)]]

\* The context block and the source list built from the second retrieval.
ContextSecond(retrieved) ==
    [i \in 1..Len(retrieved) |->
        [fmt |-> "plain", source |-> retrieved[i].source,
         score |-> 0, text |-> retrieved[i].page_content]]
SourcesSecond(retrieved) ==
    [i \in 1..Len(retrieved) |->
        [source |-> retrieved[i].source, relevance |-> 0,
         preview |-> Take(retrieved[i].page_content, PREVIEW_CHARS)]]

\* vs_manager.vector_store once _initialize_index has succeeded.
PineconeStore == [tag |-> "Pinecone"]

\* VectorStoreManager.retrieve: [] when the store is not initialised or the
\* search raises, the search's results otherwise.
Retrieve(store, reply) ==
    IF store = None THEN <<>>
    ELSE IF reply.kind = "raise" THEN <<>>
    ELSE reply.content

\* Whether retrieve came back empty-handed because the store is not
\* initialised or the search raised.
RetrieveFailed(store, reply) == store = None \/ reply.kind = "raise"

\* ------------------------------------------- CacheManager called directly

\* Freshness windows a CacheManager is constructed with.
TtlChoices == {1, DEFAULT_TTL_HOURS}

\* The clock advances by this many hours at a time.
TickSteps == {12}

\* set() is called with the questions that normalise to one key, get() with
\* every question.
SetQuestions == { <<104, 105>> (* "hi" *), <<9, 72, 105, 10>> (* "\tHi\n" *) }

\* Source lists handed to set().
SrcA == << [source |-> "./temp/faq.txt", relevance |-> 1, preview |-> <<114, 101, 115, 101, 116>> (* "reset" *)] >>
SrcB == << [source |-> "./temp/kb.pdf", relevance |-> 0, preview |-> <<112, 97, 121>> (* "pay" *)] >>
SetInputs == { [response |-> "ans1", sources |-> SrcA],
               [response |-> "ans2", sources |-> SrcB] }

\* No call yet.  after_set tells whether a get() came straight after a set(),
\* with no time passed; response and sources are then that set()'s arguments.
NoCall == [op |-> "none", query |-> <<>>, response |-> "", sources |-> <<>>,
           result |-> None, tier |-> "none", created |-> 0,
           after_set |-> FALSE, set_query |-> <<>>]

\* The creation time of the entry a get() returned.
CreatedOf(mem, db, g, query) ==
    IF g.tier = "memory" THEN mem[HashQuery(query)].timestamp
    ELSE IF g.tier = "durable" THEN db[HashQuery(query)].created_at
    ELSE 0

\* cache_manager.get(query), called on its own.
Get(query, db_ok) ==
    LET g == CacheGet(memory_cache, response_cache, ttl_hours, now, query, db_ok)
    IN  /\ pc = "idle"
        /\ \A k \in Keys : g.db[k] # None => g.db[k].hit_count <= MaxHits
        /\ memory_cache' = g.memory
        /\ response_cache' = g.db
        /\ lastcall' =
             LET straight == lastcall.op = "set"
             IN  [op |-> "get", query |-> query,
                  response |-> IF straight THEN lastcall.response ELSE "",
                  sources |-> IF straight THEN lastcall.sources ELSE <<>>,
                  result |-> g.result, tier |-> g.tier,
                  created |-> CreatedOf(memory_cache, response_cache, g, query),
                  after_set |-> straight,
                  set_query |-> IF straight THEN lastcall.query ELSE <<>>]
        /\ UNCHANGED <<now, ttl_hours, written, pending, last_miss, storeVars, reqVars>>

\* cache_manager.set(query, response, sources), called on its own.
Set(query, response, sources, db_ok) ==
    LET s == CacheSet(memory_cache, response_cache, now, query, response, sources, db_ok)
    IN  /\ pc = "idle"
        /\ memory_cache' = s.memory
        /\ response_cache' = s.db
        /\ written' = written \cup {HashQuery(query)}
        /\ lastcall' = [op |-> "set", query |-> query, response |-> response,
                        sources |-> sources, result |-> None, tier |-> "none",
                        created |-> now, after_set |-> FALSE,
                        set_query |-> <<>>]
        /\ UNCHANGED <<now, ttl_hours, storeVars, reqVars, pending, last_miss>>

\* No request yet.
NoReq == [status |-> "none"]

\* Time passes between two calls; what the last call returned is history.
Tick ==
    /\ pc = "idle"
    /\ \E d \in TickSteps : now + d <= MaxTime /\ now' = now + d
    /\ lastcall' = NoCall
    /\ resp' = NoReq
    /\ UNCHANGED <<ttl_hours, memory_cache, response_cache, written, pending, last_miss, storeVars,
                   pc, req, answered, served>>

\* The process is started again between two requests (the server finishes
\* the request in progress before it shuts down; a process killed inside a
\* request is not modelled), over the database file, the index and the
\* scratch directory the previous process left: the
\* module is executed anew, so cache_manager = CacheManager() has an empty
\* dictionary and the default ttl_hours, and VectorStoreManager() runs
\* _initialize_index again, which leaves vector_store None when Pinecone
\* does not answer (index_ok is whether it does).
Restart(index_ok) ==
    /\ pc = "idle"
    /\ memory_cache' = [k \in Keys |-> None]
    /\ ttl_hours' = DEFAULT_TTL_HOURS
    /\ vector_store' = IF index_ok THEN PineconeStore ELSE None
    /\ lastcall' = NoCall
    /\ resp' = NoReq
    /\ pending' = {}
    /\ UNCHANGED <<now, response_cache, written, last_miss, conversations,
                   sentiment_log, analytics, kbVars, pc, req, answered, served>>

\* The conversation id a client sends, and the ids uuid4 produces.
ClientConvIds == {"c1"}
Uuids == {"u1"}
ConvIds == ClientConvIds \cup Uuids

\* The ids uuid4 gives to uploaded files, and the names of the files.
DocIds == {"d1", "d2"}
FAQ_TXT == <<102, 97, 113, 46, 116, 120, 116>> (* "faq.txt" *)
KB_PDF == <<107, 98, 46, 112, 100, 102>> (* "kb.pdf" *)
NOTES_MD == <<110, 111, 116, 101, 115, 46, 109, 100>> (* "notes.md" *)
Filenames == {FAQ_TXT, KB_PDF, NOTES_MD}

\* temp_path = f"./temp/{file.filename}": where the upload is written, and
\* the "source" the loader puts in the metadata of the documents it returns.
TempPath(filename) == <<46, 47, 116, 101, 109, 112, 47>> (* "./temp/" *) \o filename

\* The values of the "source" metadata: those of the chunks indexed, and the
\* catalogued names that delete_documents_by_source filters on.
Sources == Filenames \cup {TempPath(f) : f \in Filenames}

\* A process just started over a new database (init_db), nothing asked yet.
InitStores ==
    /\ now = 0
    /\ memory_cache = [k \in Keys |-> None]
    /\ response_cache = [k \in Keys |-> None]
    /\ conversations = [c \in ConvIds |-> None]
    /\ sentiment_log = <<>>
    /\ analytics = <<>>
    /\ knowledge_base = [d \in DocIds |-> None]
    /\ index_chunks = [f \in Sources |-> 0]
    /\ feedback = <<>>
    /\ temp_files = {}
    /\ pc = "idle"
    /\ req = NoReq
    /\ resp = NoReq
    /\ answered = [q \in Questions |-> None]
    /\ served = {}
    /\ written = {}
    /\ pending = {}
    /\ last_miss = [k \in Keys |-> None]
    /\ lastcall = NoCall

InitCache == InitStores /\ ttl_hours \in TtlChoices /\ vector_store = PineconeStore

NextCache ==
    \/ \E q \in Questions, db_ok \in BOOLEAN : Get(q, db_ok)
    \/ \E q \in SetQuestions, i \in SetInputs, db_ok \in BOOLEAN :
          Set(q, i.response, i.sources, db_ok)
    \/ Tick
    \/ \E index_ok \in BOOLEAN : Restart(index_ok)

\* A CacheManager with any configured freshness window, called directly.
SpecCache == InitCache /\ [][NextCache]_vars

\* ------------------------------------------------------------ process_query
\* The handler is an async function that never awaits: a request runs to
\* completion before the event loop starts another handler.  It is modelled
\* as the sequence of its steps, one per call of an external service, and no
\* other action is enabled while a request is in progress.

ZeroCalls == [language |-> 0, sentiment |-> 0, route |-> 0, retrieve |-> 0,
              grade |-> 0, rewrite |-> 0, generate |-> 0, followup |-> 0]

\* json.dumps of the two turns stored with a conversation.
Messages(question, response_text) ==
    << [role |-> "user", content |-> question],
       [role |-> "assistant", content |-> response_text] >>

\* INSERT OR REPLACE INTO conversations, with the stored turns kept and the
\* new ones appended to them.
StoreConversationMutant(convs, id, row) ==
    IF convs[id] = None THEN [convs EXCEPT ![id] = row]
    ELSE [convs EXCEPT ![id] =
             [row EXCEPT !.messages = convs[id].messages \o row.messages]]
\* INSERT OR REPLACE INTO conversations: the row of this id is replaced whole.
StoreConversation(convs, id, row) == [convs EXCEPT ![id] = row]

\* _log_analytics: one row appended; a failure of the insert is caught.
LogAnalytics(log, query, response_time_ms, tokens, docs_retrieved, ok) ==
    IF ok
    THEN Append(log, [query |-> query, response_time_ms |-> response_time_ms,
                      tokens_used |-> tokens,
                      documents_retrieved |-> docs_retrieved, rating |-> None])
    ELSE log

\* The locals of a request that starts with the trace the previous request
\* left in agent.reasoning_steps.
NewReqStale(question, customer_id, conversation_id) ==
    [question |-> question, customer_id |-> customer_id,
     conversation_id |-> conversation_id,
     reasoning_steps |-> IF resp.status # "none" THEN resp.reasoning_steps ELSE <<>>, sources |-> <<>>, context |-> <<>>,
     retrieved_count |-> 0, query_sentiment |-> DefaultSentiment,
     response_text |-> "", response_time_ms |-> 0,
     response_sentiment |-> DefaultSentiment, suggested_questions |-> <<>>,
     calls |-> ZeroCalls, first |-> <<>>, second |-> <<>>, rewrote |-> FALSE,
     graded |-> "none", sentq_failed |-> FALSE, senta_failed |-> FALSE,
     retrieve_failed |-> FALSE, pre |-> None, route_reply |-> <<>>,
     failed_at |-> "none", prior |-> answered[question],
     prior_served |-> conversation_id \in served, prior_conv |-> None]

\* The request's locals as process_query sets them before the try block, and
\* what the model remembers of the request: the calls made, what the two
\* retrievals returned, the statement that raised (failed_at), when this
\* question was last answered (prior), whether this conversation id was
\* served before (prior_served) and, for a request the cache answers, the
\* stored conversation as the request found it (prior_conv).  A request that
\* runs the pipeline remembers the stores as it found them (pre) until it
\* has stored its own rows.  route_reply is the text the routing model
\* replied.
NewReq(question, customer_id, conversation_id) ==
    [question |-> question, customer_id |-> customer_id,
     conversation_id |-> conversation_id,
     reasoning_steps |-> <<>>, sources |-> <<>>, context |-> <<>>,
     retrieved_count |-> 0, query_sentiment |-> DefaultSentiment,
     response_text |-> "", response_time_ms |-> 0,
     response_sentiment |-> DefaultSentiment, suggested_questions |-> <<>>,
     calls |-> ZeroCalls, first |-> <<>>, second |-> <<>>, rewrote |-> FALSE,
     graded |-> "none", sentq_failed |-> FALSE, senta_failed |-> FALSE,
     retrieve_failed |-> FALSE, pre |-> None, route_reply |-> <<>>,
     failed_at |-> "none", prior |-> answered[question],
     prior_served |-> conversation_id \in served, prior_conv |-> None]

\* The outcome of a request: the QueryResponse returned, or the HTTP 500.
Outcome(r, status, path, cached, tier) ==
    [status |-> status, path |-> path,
     question |-> r.question, customer_id |-> r.customer_id,
     conversation_id |-> r.conversation_id,
     response |-> IF path = "hit" THEN cached.response ELSE r.response_text,
     sources |-> IF path = "hit" THEN cached.sources ELSE r.sources,
     reasoning_steps |-> r.reasoning_steps,
     from_cache |-> path = "hit",
     suggested_questions |-> r.suggested_questions,
     sentiment |-> IF path = "hit" THEN None ELSE SentimentText(r.response_sentiment),
     query_sentiment |-> r.query_sentiment,
     calls |-> r.calls, cached |-> cached, tier |-> tier,
     context |-> r.context, first |-> r.first, second |-> r.second,
     rewrote |-> r.rewrote, graded |-> r.graded,
     sentq_failed |-> r.sentq_failed, senta_failed |-> r.senta_failed,
     retrieve_failed |-> r.retrieve_failed, pre |-> r.pre,
     route_reply |-> r.route_reply,
     failed_at |-> r.failed_at, prior |-> r.prior,
     prior_served |-> r.prior_served, prior_conv |-> r.prior_conv]

\* The statement that raised is run again.
FailRetry(r, where) ==
    /\ pc' = pc
    /\ req' = r
    /\ UNCHANGED <<resp, answered, served>>

\* except Exception: raise HTTPException(status_code=500)
Fail(r, where) ==
    /\ pc' = "idle"
    /\ req' = NoReq
    /\ resp' = Outcome([r EXCEPT !.failed_at = where], "error", "miss", None, "none")
    /\ UNCHANGED <<answered, served>>

Bump(r, what) == [r.calls EXCEPT ![what] = @ + 1]

\* conversation_id = request.conversation_id or str(uuid.uuid4())
ConversationId(given, uuid) == IF given # "" THEN given ELSE uuid

\* A request may start: none is in progress, and the logs have room.
CanBegin(given, uuid, g) ==
    /\ pc = "idle"
    /\ Len(analytics) < MaxLog
    /\ Len(sentiment_log) < MaxLog
    /\ given = "" => conversations[uuid] = None
    /\ \A k \in Keys : g.db[k] # None => g.db[k].hit_count <= MaxHits

\* Lines 655-680, the cache answers: the trace entry, the analytics row, the
\* follow-up questions and the response, with nothing else done.
BeginHit(question, customer_id, given, uuid, db_ok, analytics_ok, followup) ==
    LET g == CacheGet(memory_cache, response_cache, ttl_hours, now, question, db_ok)
        conversation_id == ConversationId(given, uuid)
        r0 == NewReq(question, customer_id, conversation_id)
        r == [r0 EXCEPT !.reasoning_steps = <<[step |-> "Retrieved from cache"]>>,
                        !.suggested_questions = Generate(followup),
                        !.calls = Bump(r0, "followup"),
                        !.prior_conv = conversations[conversation_id]]
        valid == ValidSuggested(r.suggested_questions)
    IN  /\ CanBegin(given, uuid, g)
        /\ g.result # None
        /\ memory_cache' = g.memory
        /\ response_cache' = g.db
        /\ analytics' = LogAnalytics(analytics, question, 5, 0,
                                     Len(g.result.sources), analytics_ok)
        /\ pc' = "idle"
        /\ req' = NoReq
        /\ resp' = Outcome([r EXCEPT !.failed_at = IF valid THEN "none" ELSE "response"],
                            IF valid THEN "ok" ELSE "error", "hit", g.result, g.tier)
        /\ served' = IF valid THEN served \cup {conversation_id} ELSE served
        /\ UNCHANGED <<now, ttl_hours, conversations, sentiment_log,
                       vector_store, kbVars, answered, written, lastcall,
                       last_miss>>
        /\ pending' = pending \ {customer_id}

\* Lines 655-665, the cache does not answer: the pipeline starts.
BeginMiss(question, customer_id, given, uuid, db_ok) ==
    LET g == CacheGet(memory_cache, response_cache, ttl_hours, now, question, db_ok)
    IN  /\ CanBegin(given, uuid, g)
        /\ g.result = None
        /\ memory_cache' = g.memory
        /\ response_cache' = g.db
        /\ pc' = "detect"
        /\ req' = [NewReq(question, customer_id, ConversationId(given, uuid))
                   EXCEPT !.pre = [conversations |-> conversations,
                                   sentiment_log |-> sentiment_log,
                                   analytics |-> analytics,
                                   memory_cache |-> memory_cache,
                                   response_cache |-> response_cache]]
        /\ resp' = NoReq
        /\ UNCHANGED <<now, ttl_hours, storeVars, answered, served,
                       written, lastcall, last_miss>>
        /\ pending' = pending \ {customer_id}

\* Lines 683-685: the language and the sentiment of the question.
Detect(lang_reply, sentiment_reply) ==
    LET detected_lang == DetectLanguage(lang_reply)
        qs == Analyze(sentiment_reply)
    IN  /\ pc = "detect"
        /\ pc' = "route"
        /\ req' = [req EXCEPT
              !.query_sentiment = qs,
              !.sentq_failed = AnalyzeFailed(sentiment_reply),
              !.reasoning_steps = Append(@,
                  [step |-> "Language, Sentiment", lang |-> detected_lang,
                   sentiment |-> qs.sentiment, score |-> Format2f(qs.score)]),
              !.calls = [@ EXCEPT !.language = @ + 1, !.sentiment = @ + 1]]
        /\ UNCHANGED <<resp, answered, served, cacheVars, storeVars, histVars>>

\* Lines 688-692 and 737-739: the route, and whether retrieval is attempted.
Route(reply) ==
    /\ pc = "route"
    /\ LET r1 == [req EXCEPT !.calls = Bump(req, "route")]
       IN  IF reply.kind = "raise"
           THEN Fail(r1, "route")
           ELSE LET tool == RouteTool(reply.content)
                IN  /\ pc' = IF UsesRetrieval(tool) THEN "retrieve" ELSE "generate"
                    /\ req' = [r1 EXCEPT
                          !.route_reply = reply.content,
                          !.reasoning_steps =
                              Append(@, [step |-> "Routed to", tool |-> tool])]
                    /\ UNCHANGED <<resp, answered, served>>
    /\ UNCHANGED <<cacheVars, storeVars, histVars>>

\* Lines 694-711 and 734-736: the first retrieval.
RetrieveFirst(reply) ==
    LET retrieved == Retrieve(vector_store, reply)
    IN  /\ pc = "retrieve"
        /\ pc' = IF retrieved # <<>> THEN "grade" ELSE "generate"
        /\ req' = [req EXCEPT
              !.calls = Bump(req, "retrieve"),
              !.first = retrieved,
              !.retrieve_failed = RetrieveFailed(vector_store, reply),
              !.retrieved_count = Len(retrieved),
              !.context = IF retrieved # <<>> THEN ContextFirst(retrieved) ELSE <<>>,
              !.sources = IF retrieved # <<>> THEN SourcesFirst(retrieved) ELSE @]
        /\ UNCHANGED <<resp, answered, served, cacheVars, storeVars, histVars>>

\* Lines 713-715: the relevance verdict, and whether to rewrite and retry.
Grade(reply) ==
    /\ pc = "grade"
    /\ LET r1 == [req EXCEPT !.calls = Bump(req, "grade")]
       IN  IF reply.kind = "raise"
           THEN Fail(r1, "grade")
           ELSE LET is_relevant == IsRelevant(reply.content)
                    steps == Append(r1.reasoning_steps,
                               [step |-> "Document relevance", relevant |-> is_relevant])
                IN  /\ pc' = IF ShouldRetry(is_relevant, steps)
                             THEN "rewrite" ELSE "generate"
                    /\ req' = [r1 EXCEPT !.reasoning_steps = steps,
                                 !.graded = IF is_relevant THEN "relevant"
                                            ELSE "irrelevant"]
                    /\ UNCHANGED <<resp, answered, served>>
    /\ UNCHANGED <<cacheVars, storeVars, histVars>>

\* Line 717: the rewritten query.
Rewrite(reply) ==
    /\ pc = "rewrite"
    /\ LET r1 == [req EXCEPT !.calls = Bump(req, "rewrite")]
       IN  IF reply.kind = "raise"
           THEN Fail(r1, "rewrite")
           ELSE /\ pc' = "retrieve2"
                /\ req' = [r1 EXCEPT !.rewrote = TRUE,
                             !.reasoning_steps = Append(@,
                                [step |-> "Query rewritten",
                                 query |-> Strip(reply.content)])]
                /\ UNCHANGED <<resp, answered, served>>
    /\ UNCHANGED <<cacheVars, storeVars, histVars>>

\* Lines 719-733: the second retrieval; its results replace the context and
\* the sources only when there are any.
RetrieveSecond(reply) ==
    LET retrieved == Retrieve(vector_store, reply)
    IN  /\ pc = "retrieve2"
        /\ pc' = "generate"
        /\ req' = [req EXCEPT
              !.calls = Bump(req, "retrieve"),
              !.second = retrieved,
              !.context = IF retrieved # <<>> THEN ContextSecond(retrieved) ELSE @,
              !.sources = IF retrieved # <<>> THEN SourcesSecond(retrieved) ELSE @,
              !.retrieved_count = IF retrieved # <<>> THEN Len(retrieved) ELSE @]
        /\ UNCHANGED <<resp, answered, served, cacheVars, storeVars, histVars>>

\* Lines 742-745: the answer, and how long it took.
GenerateResponse(reply, elapsed_ms) ==
    /\ pc = "generate"
    /\ LET r1 == [req EXCEPT !.calls = Bump(req, "generate")]
       IN  IF reply.kind = "raise"
           THEN Fail(r1, "generate")
           ELSE /\ pc' = "advise"
                /\ req' = [r1 EXCEPT !.response_text = reply.content,
                             !.response_time_ms = elapsed_ms,
                             !.reasoning_steps = Append(@,
                                [step |-> "Response generated successfully"])]
                /\ UNCHANGED <<resp, answered, served>>
    /\ UNCHANGED <<cacheVars, storeVars, histVars>>

\* Lines 748-753: the sentiment of the answer and the follow-up questions.
Advise(sentiment_reply, followup) ==
    LET suggested == Generate(followup)
    IN  /\ pc = "advise"
        /\ pc' = "save"
        /\ req' = [req EXCEPT
              !.response_sentiment = Analyze(sentiment_reply),
              !.senta_failed = AnalyzeFailed(sentiment_reply),
              !.suggested_questions = suggested,
              !.reasoning_steps = Append(@,
                  [step |-> "Generated follow-up questions", n |-> Len(suggested)]),
              !.calls = [@ EXCEPT !.sentiment = @ + 1, !.followup = @ + 1]]
        /\ UNCHANGED <<resp, answered, served, cacheVars, storeVars, histVars>>

\* Lines 755-796: the conversation and the sentiment row in one commit, the
\* cache entry, the analytics row, the response.  save_ok is whether the
\* sqlite statements of the commit succeed; their failure is not caught here
\* and ends the request.  The response is built last: when its validation
\* raises, what was stored stays stored and the request ends in the HTTP 500.
Save(save_ok, cache_ok, analytics_ok) ==
    /\ pc = "save"
    /\ IF ~save_ok
       THEN /\ Fail(req, "commit")
            /\ UNCHANGED <<memory_cache, response_cache, conversations,
                           sentiment_log, analytics, last_miss>>
       ELSE LET c == CacheSet(memory_cache, response_cache, now, req.question,
                              req.response_text, req.sources, cache_ok)
                valid == ValidSuggested(req.suggested_questions)
            IN  /\ conversations' = StoreConversation(conversations, req.conversation_id,
                      [customer_id |-> req.customer_id, created_at |-> now,
                       messages |-> Messages(req.question, req.response_text),
                       kb_docs_used |-> JsonDumps(req.sources)])
                /\ sentiment_log' = Append(sentiment_log,
                      [conversation_id |-> req.conversation_id,
                       query_sentiment |-> req.query_sentiment.sentiment,
                       query_score |-> SqlReal(req.query_sentiment.score),
                       response_sentiment |-> req.response_sentiment.sentiment,
                       response_score |-> SqlReal(req.response_sentiment.score)])
                /\ memory_cache' = c.memory
                /\ response_cache' = c.db
                /\ analytics' = LogAnalytics(analytics, req.question,
                      req.response_time_ms, 0, req.retrieved_count, analytics_ok)
                /\ pc' = "idle"
                /\ req' = NoReq
                /\ resp' = Outcome([req EXCEPT !.pre = None, !.failed_at =
                                       IF valid THEN "none" ELSE "response"],
                                   IF valid THEN "ok" ELSE "error", "miss",
                                   None, "none")
                /\ answered' = IF valid
                               THEN [answered EXCEPT ![req.question] = [at |-> now]]
                               ELSE answered
                /\ served' = IF valid THEN served \cup {req.conversation_id}
                             ELSE served
                /\ last_miss' = IF valid
                                THEN [last_miss EXCEPT ![HashQuery(req.question)] =
                                        [response |-> req.response_text,
                                         sources |-> req.sources]]
                                ELSE last_miss
    /\ UNCHANGED <<now, ttl_hours, vector_store, kbVars, written, lastcall, pending>>

\* ------------------------------------------------------ the /query service

\* The questions sent to /query: they differ in case and blanks only.
QueryQuestions == { <<104, 105>> (* "hi" *), <<9, 72, 105, 10>> (* "\tHi\n" *) }

\* What the external services reply.
LangReplies == { Raises, Says(<<10, 70, 114, 101, 110, 99, 104>> (* "\nFrench" *)), Says(<<52, 50>> (* "42" *)) }
SentimentReplies == { Raises, Says(<<80, 111, 115, 105, 116, 105, 118, 101, 124, 46, 56, 10>> (* "Positive|.8\n" *)), Says(<<110, 101, 117, 116, 114, 97, 108>> (* "neutral" *)),
                      Says(<<110, 101, 103, 97, 116, 105, 118, 101, 124, 118, 101, 114, 121>> (* "negative|very" *)) }
RouteReplies == { Raises, Says(<<9, 75, 110, 111, 119, 108, 101, 100, 103, 101, 95, 66, 97, 115, 101, 10>> (* "\tKnowledge_Base\n" *)), Says(<<100, 105, 114, 101, 99, 116, 95, 97, 110, 115, 119, 101, 114>> (* "direct_answer" *)),
                  Says(<<119, 101, 98, 95, 115, 101, 97, 114, 99, 104>> (* "web_search" *)), Says(<<66, 105, 108, 108, 105, 110, 103, 32>> (* "Billing " *)) }
P1 == [source |-> "./temp/faq.txt", score |-> 80, page_content |-> <<114, 101, 115, 101, 116>> (* "reset" *)]
P2 == [source |-> "./temp/kb.pdf", score |-> 35, page_content |-> <<112, 97, 121>> (* "pay" *)]
RetrieveReplies == { Raises, Says(<<>>), Says(<<P1>>), Says(<<P2, P1>>) }
GradeReplies == { Raises, Says(<<89, 101, 115, 46>> (* "Yes." *)), Says(<<110, 111>> (* "no" *)) }
RewriteReplies == { Raises, Says(<<32, 114, 101, 115, 101, 116, 32, 112, 119, 32>> (* " reset pw " *)) }
GenerateReplies == { Raises, Says("ans1"), Says("ans2") }
ElapsedMs == {120}
FollowupReplies ==
    { Raises, Says(NotJson), Says(JsonObject),
      Says(JsonList(<<JsonStr("f1"), JsonStr("f2")>>)),
      Says(JsonList(<<JsonStr("f1"), JsonStr("f2"), JsonStr("f3"), JsonStr("f4")>>)),
      Says(JsonList(<<JsonStr("f1"), JsonNull>>)) }

\* The service as deployed: cache_manager = CacheManager(), over a vector
\* store that initialised.
InitQuery ==
    /\ InitStores
    /\ ttl_hours = DEFAULT_TTL_HOURS
    /\ vector_store = PineconeStore

\* The steps of a request between the cache lookup and the commit, with the
\* external services replying anything.
PipelineSteps ==
    \/ \E l \in LangReplies, s \in SentimentReplies : Detect(l, s)
    \/ \E r \in RouteReplies : Route(r)
    \/ \E r \in RetrieveReplies : RetrieveFirst(r)
    \/ \E r \in GradeReplies : Grade(r)
    \/ \E r \in RewriteReplies : Rewrite(r)
    \/ \E r \in RetrieveReplies : RetrieveSecond(r)
    \/ \E r \in GenerateReplies, ms \in ElapsedMs : GenerateResponse(r, ms)
    \/ \E s \in SentimentReplies, f \in FollowupReplies : Advise(s, f)

\* The service over a vector store that initialised or one that did not
\* (_initialize_index leaves vector_store None when it fails).
InitPipe ==
    /\ InitStores
    /\ ttl_hours = DEFAULT_TTL_HOURS
    /\ vector_store \in {PineconeStore, None}

\* One question asked with and without a conversation id, the database healthy.
NextPipe ==
    \/ \E given \in ClientConvIds \cup {""}, f \in FollowupReplies :
          BeginHit(<<104, 105>> (* "hi" *), "", given, "u1", TRUE, TRUE, f)
    \/ \E given \in ClientConvIds \cup {""} :
          BeginMiss(<<104, 105>> (* "hi" *), "", given, "u1", TRUE)
    \/ PipelineSteps
    \/ \E save_ok \in BOOLEAN : Save(save_ok, TRUE, TRUE)

\* The pipeline of one question, every reply of every external service.
SpecPipe == InitPipe /\ [][NextPipe]_vars

\* The replies of a request that retrieves one relevant passage; the answer
\* model may fail.
StoreLang == { Raises }
StoreSentiment == { Says(<<80, 111, 115, 105, 116, 105, 118, 101, 124, 48, 46, 56>> (* "Positive|0.8" *)) }
StoreRoute == { Says(<<32, 75, 110, 111, 119, 108, 101, 100, 103, 101, 95, 66, 97, 115, 101, 32>> (* " Knowledge_Base " *)) }
StoreRetrieve == { Says(<<P1>>) }
StoreGrade == { Says(<<89, 101, 115, 46>> (* "Yes." *)) }
StoreGenerate == { Raises, Says("ans1"), Says("ans2") }
StoreFollowup == { Says(JsonList(<<JsonStr("f1"), JsonStr("f2")>>)),
                   Says(JsonList(<<JsonStr("f1"), JsonNull>>)) }

\* The replies of the runs in which a step's reply is not what is varied:
\* one answer, and a follow-up reply of one question.
OneAnswer == Says("ans1")
OneFollowup == Says(JsonList(<<JsonStr("f1")>>))

\* A request the cache answers.  The analytics insert may fail.
CacheHitLogged(analytics_ok) ==
    \E q \in QueryQuestions, given \in ClientConvIds, f \in StoreFollowup :
       BeginHit(q, "", given, "u1", TRUE, analytics_ok, f)

CacheHit == \E analytics_ok \in BOOLEAN : CacheHitLogged(analytics_ok)

\* Requests over time and across restarts.  The database is healthy except
\* that the analytics insert of a cache hit and the durable write of a cache
\* entry may fail, and Pinecone answers at every start.
NextQuery ==
    \/ CacheHit
    \/ \E q \in QueryQuestions, given \in ClientConvIds :
          BeginMiss(q, "", given, "u1", TRUE)
    \/ \E l \in StoreLang, s \in StoreSentiment : Detect(l, s)
    \/ \E r \in StoreRoute : Route(r)
    \/ \E r \in StoreRetrieve : RetrieveFirst(r)
    \/ \E r \in StoreGrade : Grade(r)
    \/ \E r \in StoreGenerate, ms \in ElapsedMs : GenerateResponse(r, ms)
    \/ \E s \in StoreSentiment, f \in StoreFollowup : Advise(s, f)
    \/ \E cache_ok \in BOOLEAN : Save(TRUE, cache_ok, TRUE)
    \/ Tick
    \/ Restart(TRUE)

\* The /query service over time.
SpecQuery == InitQuery /\ [][NextQuery]_vars

\* ------------------------------------------------------- claims: the cache

\* C1: a get(q) issued straight after set(q, a, s) returns an entry whose
\* answer is a and whose sources are s, and a get(q) for a question whose
\* normalised text was never written returns no entry.
C1_SetThenGet ==
    lastcall.op = "get" =>
        /\ (lastcall.after_set /\ lastcall.set_query = lastcall.query) =>
              /\ lastcall.result # None
              /\ lastcall.result.response = lastcall.response
              /\ lastcall.result.sources = lastcall.sources
        /\ HashQuery(lastcall.query) \notin written => lastcall.result = None

\* C1 witness: a get straight after a set of the same question whose durable
\* write failed has returned that set's answer.
C1_Witness ==
    /\ lastcall.op = "get"
    /\ lastcall.after_set
    /\ lastcall.set_query = lastcall.query
    /\ lastcall.result # None
    /\ lastcall.result.response = "ans2"
    /\ response_cache[HashQuery(lastcall.query)] = None

\* C2 (as claimed): for every configured freshness window, get never returns
\* an entry whose age exceeds the window.
C2_ExpiredNeverReturned ==
    (lastcall.op = "get" /\ lastcall.result # None) =>
        now - lastcall.created <= ttl_hours

\* C3 (as claimed): every key with an unexpired in-process entry has an
\* unexpired durable entry with the same answer and the same sources.
C3_MemorySubsetOfDurable ==
    \A k \in Keys :
        (memory_cache[k] # None
            /\ MemFresh(memory_cache[k].timestamp, now, ttl_hours)) =>
          /\ response_cache[k] # None
          /\ DbFresh(response_cache[k].created_at, now)
          /\ response_cache[k].response = memory_cache[k].data.response
          /\ JsonLoads(response_cache[k].sources) = memory_cache[k].data.sources

\* ---------------------------------------------------- claims: the pipeline

\* The trace entry of a request the cache answered.
CACHE_MARKER == "Retrieved from cache"

HasCacheMarker(steps) == \E i \in 1..Len(steps) : steps[i].step = CACHE_MARKER

\* The first retrieval returned passages and they were judged irrelevant.
JudgedIrrelevant(r) == r.first # <<>> /\ r.graded = "irrelevant"

\* C4: in one request the relevance model is called at most once, the
\* rewrite model at most once and the retrieval service at most twice; when
\* the first retrieval returned passages that were judged irrelevant the
\* rewrite is called exactly once and, once it has returned, the second
\* retrieval is made exactly once; in every other request there is no rewrite
\* and no second retrieval.
C4_BoundedRetry ==
    /\ pc # "idle" =>
          /\ req.calls.grade <= 1
          /\ req.calls.rewrite <= 1
          /\ req.calls.retrieve <= 2
    /\ resp.status # "none" =>
          /\ resp.calls.grade <= 1
          /\ resp.calls.rewrite <= 1
          /\ resp.calls.retrieve <= 2
          /\ JudgedIrrelevant(resp) =>
                /\ resp.calls.rewrite = 1
                /\ resp.rewrote => resp.calls.retrieve = 2
                /\ ~resp.rewrote => resp.failed_at = "rewrite"
          /\ ~JudgedIrrelevant(resp) =>
                /\ resp.calls.rewrite = 0
                /\ resp.calls.retrieve <= 1

\* C4 witness: a request has returned after one grading that judged the
\* passages irrelevant, one rewrite and a second, non-empty, retrieval.
C4_Witness ==
    /\ resp.status = "ok"
    /\ JudgedIrrelevant(resp)
    /\ resp.rewrote
    /\ resp.calls.grade = 1
    /\ resp.calls.rewrite = 1
    /\ resp.calls.retrieve = 2
    /\ resp.second # <<>>

\* C5 (as claimed): when the query was rewritten, the context given to the
\* answer model and the sources of the response, of the stored conversation
\* and of the cache entry are those of the second retrieval, empty when the
\* second retrieval returned nothing.
C5_SecondRetrievalReplaces ==
    (resp.status # "none" /\ resp.rewrote /\ resp.calls.generate = 1) =>
        /\ resp.context = ContextSecond(resp.second)
        /\ resp.status = "ok" =>
              /\ resp.sources = SourcesSecond(resp.second)
              /\ conversations[resp.conversation_id].kb_docs_used
                    = JsonDumps(SourcesSecond(resp.second))
              /\ memory_cache[HashQuery(resp.question)].data.sources
                    = SourcesSecond(resp.second)

\* C6 (as claimed): once a request for a question has succeeded on the miss
\* path, every later request for the identical question within the freshness
\* window returns from_cache = true and a trace with the cache-hit marker.
C6_RepeatServedFromCache ==
    (resp.status # "none" /\ resp.prior # None
        /\ now - resp.prior.at < ttl_hours) =>
        /\ resp.status = "ok"
        /\ resp.from_cache
        /\ HasCacheMarker(resp.reasoning_steps)

\* C7 (as claimed): a request the cache answers makes no language, sentiment,
\* routing, retrieval, relevance, rewrite or answer call, calls the follow-up
\* model exactly once, and returns the cached answer and sources unchanged.
C7_HitSkipsPipeline ==
    (resp.status # "none" /\ resp.path = "hit") =>
        /\ resp.calls = [ZeroCalls EXCEPT !.followup = 1]
        /\ resp.status = "ok"
        /\ resp.response = resp.cached.response
        /\ resp.sources = resp.cached.sources

\* C8 (as claimed): after two successful requests with one conversation id
\* the stored turns are the second request's question and answer.
C8_SecondTurnsStored ==
    (resp.status = "ok" /\ resp.prior_served) =>
        /\ conversations[resp.conversation_id] # None
        /\ conversations[resp.conversation_id].messages
              = Messages(resp.question, resp.response)

\* C8 (amended): after two successful requests with one conversation id, when
\* the second ran the pipeline the stored turns are exactly its question and
\* its answer, two turns; when the second was answered by the cache the
\* stored conversation is what it was before that request.
C8_OverwriteOnMiss ==
    (resp.status = "ok" /\ resp.prior_served) =>
        IF resp.path = "miss"
        THEN /\ conversations[resp.conversation_id] # None
             /\ conversations[resp.conversation_id].messages
                   = Messages(resp.question, resp.response)
             /\ Len(conversations[resp.conversation_id].messages) = 2
        ELSE conversations[resp.conversation_id] = resp.prior_conv

\* C8 witness: a second successful request with the same conversation id has
\* run the pipeline and stored its two turns over the first request's.
C8_Witness ==
    /\ resp.status = "ok"
    /\ resp.prior_served
    /\ resp.path = "miss"
    /\ Len(sentiment_log) = 2
    /\ sentiment_log[1].conversation_id = resp.conversation_id
    /\ conversations[resp.conversation_id].messages
          = Messages(resp.question, resp.response)

\* C9 (as claimed): a request the cache answers appends exactly one analytics
\* row and leaves the conversations, the sentiment log and the stored cache
\* rows as they were.
C9_HitChangesOnlyAnalytics ==
    [][CacheHit =>
          /\ conversations' = conversations
          /\ sentiment_log' = sentiment_log
          /\ response_cache' = response_cache
          /\ Len(analytics') = Len(analytics) + 1
          /\ SubSeq(analytics', 1, Len(analytics)) = analytics]_vars

\* C9 (amended): a request the cache answers leaves the conversations and the
\* sentiment log as they were; it appends one analytics row for its question,
\* or none when that insert fails; it leaves the stored cache rows as they
\* were when the in-process tier answered, and when the durable tier answered
\* it adds one to that row's hit count and sets its last access time, the
\* row's answer, sources and creation time and every other row unchanged.
C9_HitFrame ==
    [][\A analytics_ok \in BOOLEAN :
          (pc = "idle" /\ CacheHitLogged(analytics_ok)) =>
             /\ conversations' = conversations
             /\ sentiment_log' = sentiment_log
             /\ resp'.tier = "memory" => response_cache' = response_cache
             /\ \A k \in Keys :
                   \/ response_cache'[k] = response_cache[k]
                   \/ /\ k = HashQuery(resp'.question)
                      /\ resp'.tier = "durable"
                      /\ response_cache[k] # None
                      /\ response_cache'[k] =
                            [response_cache[k] EXCEPT !.hit_count = @ + 1,
                                                      !.last_accessed = now]
             /\ analytics_ok =>
                   /\ Len(analytics') = Len(analytics) + 1
                   /\ SubSeq(analytics', 1, Len(analytics)) = analytics
                   /\ analytics'[Len(analytics')].query = resp'.question
             /\ ~analytics_ok => analytics' = analytics]_vars

\* C9 witness: the durable tier has answered a request after a restart; the
\* row's hit count is one and the request's analytics row is in the log.
C9_Witness ==
    /\ resp.status = "ok"
    /\ resp.path = "hit"
    /\ resp.tier = "durable"
    /\ response_cache[HashQuery(resp.question)].hit_count = 1
    /\ \E i \in 1..Len(analytics) :
          analytics[i].query = resp.question /\ analytics[i].response_time_ms = 5

\* The steps whose failure the handler does not tolerate.
FatalSteps == {"route", "grade", "rewrite", "generate", "commit"}

\* C10 (as claimed): when the sentiment call raises or its reply does not
\* parse, for the question or for the answer, and no other call raises and
\* the commit succeeds, the request returns a successful response and the
\* corresponding sentiment is neutral with score 0.0.
C10_SentimentFailureTolerated ==
    (resp.status # "none" /\ resp.path = "miss"
        /\ (resp.sentq_failed \/ resp.senta_failed)
        /\ resp.failed_at \notin FatalSteps) =>
        /\ resp.status = "ok"
        /\ resp.sentq_failed =>
              resp.query_sentiment = DefaultSentiment
        /\ resp.senta_failed =>
              resp.sentiment = SentimentText(DefaultSentiment)

\* C11 (as claimed): when the first retrieval fails, because the search
\* raises or the vector store is not initialised, and no other call raises
\* and the commit succeeds, the request returns a successful response with
\* empty context and empty sources, and neither the relevance model nor the
\* rewrite model is called.
C11_RetrievalFailureTolerated ==
    (resp.status # "none" /\ resp.path = "miss" /\ resp.retrieve_failed
        /\ resp.failed_at \notin FatalSteps) =>
        /\ resp.status = "ok"
        /\ resp.first = <<>>
        /\ resp.context = <<>>
        /\ resp.sources = <<>>
        /\ resp.calls.grade = 0
        /\ resp.calls.rewrite = 0

\* C12 (as claimed): when the answer model fails the request ends in the
\* failure outcome with no answer, and the conversations, the sentiment log,
\* both cache tiers and the analytics log are as they were before it.
C12_GenerationFailureChangesNothing ==
    (resp.status # "none" /\ resp.failed_at = "generate") =>
        /\ resp.status = "error"
        /\ resp.response = ""
        /\ conversations = resp.pre.conversations
        /\ sentiment_log = resp.pre.sentiment_log
        /\ analytics = resp.pre.analytics
        /\ response_cache = resp.pre.response_cache
        /\ memory_cache = resp.pre.memory_cache

\* C12 (amended): when the answer model fails the request ends in the
\* failure outcome with no answer; the conversations, the sentiment log, the
\* analytics log and the durable cache tier are as they were before it, and
\* so is the in-process tier except that the entry of the question's key,
\* when it had outlived the freshness window, has been evicted by the lookup.
C12_GenerationFailureFrame ==
    (resp.status # "none" /\ resp.failed_at = "generate") =>
        LET k == HashQuery(resp.question)
            old == resp.pre.memory_cache
        IN  /\ resp.status = "error"
            /\ resp.response = ""
            /\ conversations = resp.pre.conversations
            /\ sentiment_log = resp.pre.sentiment_log
            /\ analytics = resp.pre.analytics
            /\ response_cache = resp.pre.response_cache
            /\ \/ memory_cache = old
               \/ /\ old[k] # None
                  /\ now - old[k].timestamp >= ttl_hours
                  /\ memory_cache = [old EXCEPT ![k] = None]

\* C12 witness: the answer model has failed in a request that found rows of
\* an earlier request in every store and an expired in-process entry.
C12_Witness ==
    /\ resp.status = "error"
    /\ resp.failed_at = "generate"
    /\ resp.pre.memory_cache[HashQuery(resp.question)] # None
    /\ memory_cache[HashQuery(resp.question)] = None
    /\ conversations[resp.conversation_id] # None
    /\ Len(sentiment_log) = 1
    /\ Len(analytics) >= 1

\* ------------------------------------------------------ the knowledge base

\* str.endswith
EndsWith(s, suffix) ==
    /\ Len(s) >= Len(suffix)
    /\ SubSeq(s, Len(s) - Len(suffix) + 1, Len(s)) = suffix

DOT_PDF == <<46, 112, 100, 102>> (* ".pdf" *)
DOT_TXT == <<46, 116, 120, 116>> (* ".txt" *)

\* What the loader gives for a file: it raises, or it returns the documents
\* it extracted (none for a name that ends in neither .pdf nor .txt, for
\* which no loader is run).
LoadFile(filename, load) ==
    IF EndsWith(filename, DOT_PDF) \/ EndsWith(filename, DOT_TXT)
    THEN load
    ELSE "empty"

\* VectorStoreManager.add_documents: the number of chunks added; 0 when the
\* store is not initialised, when there are no chunks, or when the store
\* raises.
AddDocuments(store, chunks, add_ok) ==
    IF store = None THEN 0
    ELSE IF chunks = 0 THEN 0
    ELSE IF add_ok THEN chunks
    ELSE 0

\* The status written to the catalog row.
CatalogStatus(added) == IF added = 0 THEN "failed" ELSE "processed"

\* The status of the file in the response of /upload-documents.
ReportedStatus(added) == IF added > 0 THEN "success" ELSE "failed"

\* VectorStoreManager.delete_documents_by_source: the value returned, the
\* index as the call leaves it (without the chunks whose "source" is the
\* one given), and whether a delete call went through.
\* index_ok is whether pc.Index returns; first_ok and second_ok are whether
\* the delete with the $eq filter and the one with the plain filter return.
DeleteBySource(store, chunks, source, index_ok, first_ok, second_ok) ==
    IF store = None
    THEN [returned |-> FALSE, chunks |-> chunks, removed |-> FALSE]
    ELSE IF index_ok /\ (first_ok \/ second_ok)
    THEN [returned |-> TRUE, chunks |-> [chunks EXCEPT ![source] = 0],
          removed |-> TRUE]
    ELSE [returned |-> TRUE, chunks |-> chunks, removed |-> FALSE]

\* DELETE FROM knowledge_base WHERE id = ?, leaving the row where it is.
CatalogDeleteMutant(catalog, document_id) == catalog
\* DELETE FROM knowledge_base WHERE id = ?
CatalogDelete(catalog, document_id) == [catalog EXCEPT ![document_id] = None]

\* What the loader does, how many chunks the splitter makes, and where the
\* sqlite statements of delete_document may fail.
Loads == {"raise", "empty", "pages"}
ChunkCounts == {0, 1, 2}
DbFaults == {"ok", "select", "delete"}

\* POST /upload-documents with one file.  db_ok is whether the INSERT into the
\* catalog succeeds; its failure ends the request in the HTTP 400.  The
\* chunks are indexed under the source the loader gave them, temp_path; the
\* catalog row carries file.filename.
UploadDocument(file_id, filename, load, chunks, add_ok, db_ok) ==
    LET loaded == LoadFile(filename, load)
        added == AddDocuments(vector_store, chunks, add_ok)
        result(http, n, status, row) ==
            [op |-> "upload", http |-> http, file_id |-> file_id,
             filename |-> filename, chunks |-> n, status |-> status,
             loaded |-> loaded, split |-> chunks, added |-> added, row |-> row]
    IN  /\ pc = "idle"
        /\ knowledge_base[file_id] = None
        /\ index_chunks[TempPath(filename)] + added <= MaxChunks
        /\ IF loaded = "raise"
           THEN /\ lastcall' = result(200, 0, "error", None)
                /\ temp_files' = temp_files \ {filename}
                /\ UNCHANGED <<knowledge_base, index_chunks>>
           ELSE IF loaded = "empty"
           THEN /\ lastcall' = result(200, 0, "no_content", None)
                /\ temp_files' = temp_files \ {filename}
                /\ UNCHANGED <<knowledge_base, index_chunks>>
           ELSE /\ index_chunks' = [index_chunks EXCEPT ![TempPath(filename)] = @ + added]
                /\ IF db_ok
                   THEN LET row == [filename |-> filename,
                                    status |-> CatalogStatus(added),
                                    chunk_count |-> added]
                        IN  /\ knowledge_base' = [knowledge_base EXCEPT ![file_id] = row]
                            /\ lastcall' = result(200, added, ReportedStatus(added), row)
                            /\ temp_files' = temp_files \ {filename}
                   ELSE /\ lastcall' = result(400, 0, "", None)
                        /\ temp_files' = temp_files \cup {filename}
                        /\ UNCHANGED knowledge_base
        /\ UNCHANGED <<cacheVars, conversations, sentiment_log, analytics,
                       vector_store, feedback, reqVars, written, pending, last_miss>>

\* DELETE /kb-documents/{document_id}: the index is filtered on the
\* catalogued filename.  The result records, next to the response, whether
\* a delete call went through (called) and whether the index then holds no
\* chunk of the upload (removed).
DeleteDocument(document_id, index_ok, first_ok, second_ok, db) ==
    LET doc == knowledge_base[document_id]
        result(http, status, flag, called, removed) ==
            [op |-> "delete_document", http |-> http, status |-> status,
             document_id |-> document_id, doc |-> doc, db |-> db,
             vector_store_deleted |-> flag, called |-> called,
             removed |-> removed]
    IN  /\ pc = "idle"
        /\ IF db = "select"
           THEN /\ lastcall' = result(500, "", FALSE, FALSE, FALSE)
                /\ UNCHANGED <<knowledge_base, index_chunks>>
           ELSE IF doc = None
           THEN /\ lastcall' = result(404, "", FALSE, FALSE, FALSE)
                /\ UNCHANGED <<knowledge_base, index_chunks>>
           ELSE LET d == DeleteBySource(vector_store, index_chunks, doc.filename,
                                        index_ok, first_ok, second_ok)
                    gone == d.removed /\ d.chunks[TempPath(doc.filename)] = 0
                IN  /\ index_chunks' = d.chunks
                    /\ IF db = "delete"
                       THEN /\ lastcall' = result(500, "", FALSE, d.removed, gone)
                            /\ UNCHANGED knowledge_base
                       ELSE /\ knowledge_base' = CatalogDelete(knowledge_base,
                                                                document_id)
                            /\ lastcall' = result(200, "deleted", d.returned,
                                                  d.removed, gone)
        /\ UNCHANGED <<cacheVars, conversations, sentiment_log, analytics,
                       vector_store, feedback, temp_files, reqVars, written, pending, last_miss>>

\* The files uploaded: any name, any outcome of loading, splitting, indexing
\* and of the catalog write.
UploadFile ==
    \E file_id \in DocIds, filename \in Filenames, load \in Loads,
       chunks \in ChunkCounts, add_ok \in BOOLEAN, db_ok \in BOOLEAN :
       UploadDocument(file_id, filename, load, chunks, add_ok, db_ok)

\* The documents deleted: any id, stored or not.
RemoveDocument ==
    \E document_id \in DocIds, index_ok \in BOOLEAN, first_ok \in BOOLEAN,
       second_ok \in BOOLEAN, db \in DbFaults :
       DeleteDocument(document_id, index_ok, first_ok, second_ok, db)

NextDocs == UploadFile \/ RemoveDocument

\* The knowledge base endpoints, over a vector store that initialised or one
\* that did not.
SpecDocs == InitPipe /\ [][NextDocs]_vars

\* ------------------------------------- conversations and feedback endpoints

\* GET /conversations/{conversation_id}.  The HTTPException(404) is raised
\* inside the try block, whose "except Exception" turns it into the 500.
GetConversation(conversation_id, db_ok) ==
    LET row == conversations[conversation_id]
        result(http, body) ==
            [op |-> "get_conversation", http |-> http,
             conversation_id |-> conversation_id, row |-> row,
             db_ok |-> db_ok, body |-> body]
    IN  /\ pc = "idle"
        /\ lastcall' =
             IF ~db_ok THEN result(500, None)
             ELSE IF row = None THEN result(500, None)
             ELSE result(200, [conversation_id |-> conversation_id,
                               created_at |-> row.created_at,
                               messages |-> row.messages,
                               sources_used |-> JsonLoads(row.kb_docs_used)])
        /\ UNCHANGED <<cacheVars, storeVars, reqVars, written, pending, last_miss>>

\* The DELETE with the feedback rows of the conversation deleted along.
DeleteRowCascade(convs, fb, conversation_id) ==
    [conversations |-> [convs EXCEPT ![conversation_id] = None],
     feedback |-> SelectSeq(fb, LAMBDA f : f.conversation_id # conversation_id)]

\* DELETE FROM conversations WHERE id = ?, on a connection that does not
\* enforce foreign keys (no PRAGMA foreign_keys) and a feedback table whose
\* FOREIGN KEY has no ON DELETE clause: the two tables after it.
DeleteRow(convs, fb, conversation_id) ==
    [conversations |-> [convs EXCEPT ![conversation_id] = None],
     feedback |-> fb]

\* DELETE /conversations/{conversation_id}
DeleteConversation(conversation_id, db_ok) ==
    /\ pc = "idle"
    /\ IF db_ok
       THEN /\ conversations' = DeleteRow(conversations, feedback,
                                          conversation_id).conversations
            /\ feedback' = DeleteRow(conversations, feedback,
                                     conversation_id).feedback
            /\ lastcall' = [op |-> "delete_conversation", http |-> 200,
                            status |-> "deleted",
                            conversation_id |-> conversation_id]
       ELSE /\ lastcall' = [op |-> "delete_conversation", http |-> 500,
                            status |-> "",
                            conversation_id |-> conversation_id]
            /\ UNCHANGED <<conversations, feedback>>
    /\ UNCHANGED <<cacheVars, sentiment_log, analytics, vector_store,
                   knowledge_base, index_chunks, temp_files,
                   reqVars, written, pending, last_miss>>

\* POST /feedback.  FeedbackRequest.rating is declared int and nothing else.
SubmitFeedback(conversation_id, query, response, rating, comment, db_ok) ==
    /\ pc = "idle"
    /\ Len(feedback) < MaxLog
    /\ IF db_ok
       THEN /\ feedback' = Append(feedback,
                 [conversation_id |-> conversation_id, query |-> query,
                  response |-> response, rating |-> rating,
                  comment |-> comment])
            /\ lastcall' = [op |-> "feedback", http |-> 200,
                            status |-> "recorded", rating |-> rating]
       ELSE /\ lastcall' = [op |-> "feedback", http |-> 500, status |-> "",
                            rating |-> rating]
            /\ UNCHANGED feedback
    /\ UNCHANGED <<cacheVars, conversations, sentiment_log, analytics,
                   vector_store, knowledge_base, index_chunks, temp_files,
                   reqVars, written, pending, last_miss>>

\* The ratings clients send.
Ratings == {0, 3, 6}

FetchConversation ==
    \E conversation_id \in ConvIds, db_ok \in BOOLEAN :
       GetConversation(conversation_id, db_ok)

DropConversation ==
    \E conversation_id \in ClientConvIds, db_ok \in BOOLEAN :
       DeleteConversation(conversation_id, db_ok)

SendFeedback ==
    \E rating \in Ratings, db_ok \in BOOLEAN :
       SubmitFeedback("c1", "hi", "ans1", rating, None, db_ok)

\* One text file uploaded, with every step going well.
UploadText ==
    \E file_id \in DocIds : UploadDocument(file_id, FAQ_TXT, "pages", 1, TRUE, TRUE)

\* A /query request that stores a conversation.
AskQuestion ==
    \/ BeginMiss(<<104, 105>> (* "hi" *), "", "c1", "u1", TRUE)
    \/ \E l \in StoreLang, s \in StoreSentiment : Detect(l, s)
    \/ \E r \in StoreRoute : Route(r)
    \/ \E r \in StoreRetrieve : RetrieveFirst(r)
    \/ \E r \in StoreGrade : Grade(r)
    \/ \E ms \in ElapsedMs : GenerateResponse(OneAnswer, ms)
    \/ \E s \in StoreSentiment : Advise(s, OneFollowup)
    \/ Save(TRUE, TRUE, TRUE)

NextConv ==
    \/ AskQuestion
    \/ FetchConversation
    \/ DropConversation
    \/ SendFeedback
    \/ UploadText
    \/ RemoveDocument

\* The endpoints that read and delete what is stored, next to the ones that
\* store it.
SpecConv == InitQuery /\ [][NextConv]_vars

\* ----------------------------------------------- claims: the knowledge base

\* C13: for a document id present in the catalog, when the sqlite statements
\* succeed, delete_document removes the catalog row and returns status
\* deleted, whether the removal of the chunks from the index went through
\* or not.
C13_DeleteIsBestEffort ==
    (lastcall.op = "delete_document" /\ lastcall.doc # None
        /\ lastcall.db = "ok") =>
        /\ lastcall.http = 200
        /\ lastcall.status = "deleted"
        /\ knowledge_base[lastcall.document_id] = None

\* C13 witness: a present document has been deleted while the removal of its
\* chunks failed; the row is gone and the chunks are still in the index.
C13_Witness ==
    /\ lastcall.op = "delete_document"
    /\ lastcall.doc # None
    /\ lastcall.doc.chunk_count > 0
    /\ ~lastcall.called
    /\ lastcall.status = "deleted"
    /\ knowledge_base[lastcall.document_id] = None
    /\ index_chunks[TempPath(lastcall.doc.filename)] > 0

\* C14 (as claimed): the vector_store_deleted flag of a deletion is true
\* exactly when the removal of the chunks from the index went through.
C14_FlagTellsRemoval ==
    (lastcall.op = "delete_document" /\ lastcall.http = 200) =>
        (lastcall.vector_store_deleted <=> lastcall.removed)

\* A conversation is fetched, or a document deleted, by an id that is not
\* stored, with the sqlite statements succeeding.
FetchUnknown ==
    \E conversation_id \in ConvIds :
       conversations[conversation_id] = None /\ GetConversation(conversation_id, TRUE)

RemoveUnknown ==
    \E document_id \in DocIds, index_ok \in BOOLEAN, first_ok \in BOOLEAN,
       second_ok \in BOOLEAN :
       /\ knowledge_base[document_id] = None
       /\ DeleteDocument(document_id, index_ok, first_ok, second_ok, "ok")

\* C15 (as claimed): fetching a conversation, or deleting a document, by an
\* id that is not stored gives the 404 and changes nothing that is stored.
C15_UnknownIdIsNotFound ==
    [][(FetchUnknown \/ RemoveUnknown) =>
          /\ lastcall'.http = 404
          /\ UNCHANGED <<cacheVars, storeVars>>]_vars

\* C16 (as claimed): every stored feedback row has a rating from 1 to 5.
C16_RatingInRange ==
    \A i \in 1..Len(feedback) : feedback[i].rating \in 1..5


\* C17: a .txt or .pdf file whose text is extracted and whose chunks are
\* accepted by the retrieval service is reported by upload_documents with
\* status "processed" and a chunk count of at least 1, and its catalog row
\* carries the same status and the same chunk count.
C17_UploadReportsProcessed ==
    (/\ lastcall.op = "upload"
     /\ lastcall.http = 200
     /\ lastcall.loaded = "pages"
     /\ lastcall.added >= 1) =>
        /\ lastcall.status = "processed"
        /\ lastcall.chunks >= 1
        /\ lastcall.row # None
        /\ lastcall.row.status = lastcall.status
        /\ lastcall.row.chunk_count = lastcall.chunks


\* The route a request's trace records.
Routed(r) == \E i \in 1..Len(r.reasoning_steps) : r.reasoning_steps[i].step = "Routed to"
RouteOf(r) ==
    r.reasoning_steps[CHOOSE i \in 1..Len(r.reasoning_steps) :
                          r.reasoning_steps[i].step = "Routed to"].tool

\* C18: retrieval is attempted if and only if the lower-cased, trimmed routing
\* reply is exactly knowledge_base or direct_answer; for web_search and for
\* every unrecognised reply the request goes on without a retrieval call, with
\* empty context and empty sources, and that reply is the route the trace
\* records.  Stated of a request in progress once it is routed, and of every
\* request that finished after routing.
C18_RetrievalFollowsRoute ==
    /\ pc \notin {"idle", "detect", "route"} =>
          LET tool == Lower(Strip(req.route_reply))
          IN  /\ Routed(req) /\ RouteOf(req) = tool
              /\ tool \in {KNOWLEDGE_BASE, DIRECT_ANSWER}
                    <=> (pc = "retrieve" \/ req.calls.retrieve >= 1)
              /\ tool \notin {KNOWLEDGE_BASE, DIRECT_ANSWER} =>
                    req.context = <<>> /\ req.sources = <<>>
    /\ (resp.status # "none" /\ resp.path = "miss" /\ Routed(resp)) =>
          LET tool == Lower(Strip(resp.route_reply))
          IN  /\ RouteOf(resp) = tool
              /\ tool \in {KNOWLEDGE_BASE, DIRECT_ANSWER} <=> resp.calls.retrieve >= 1
              /\ tool \notin {KNOWLEDGE_BASE, DIRECT_ANSWER} =>
                    resp.context = <<>> /\ resp.sources = <<>>

\* An unrecognised reply, "Billing ", is answered without retrieval.
C18_Witness ==
    /\ resp.status = "ok" /\ resp.path = "miss"
    /\ resp.route_reply = <<66, 105, 108, 108, 105, 110, 103, 32>> (* "Billing " *)
    /\ RouteOf(resp) = <<98, 105, 108, 108, 105, 110, 103>> (* "billing" *)
    /\ resp.calls.retrieve = 0
    /\ resp.response # ""


\* ------------------------------------------------------- the hit counters

\* The cache called directly with questions of two keys, so that a lookup of
\* one entry happens while another entry is stored.
HitQuestions == { <<104, 105>> (* "hi" *), <<121, 111>> (* "yo" *) }

NextHits ==
    \/ \E q \in HitQuestions, db_ok \in BOOLEAN : Get(q, db_ok)
    \/ \E q \in HitQuestions, db_ok \in BOOLEAN : Set(q, "ans1", SrcA, db_ok)
    \/ Tick
    \/ \E index_ok \in BOOLEAN : Restart(index_ok)

SpecHits == InitCache /\ [][NextHits]_vars

\* hit_count of the row of key k; no row, no count.
HitCount(db, k) == IF db[k] = None THEN 0 ELSE db[k].hit_count

\* C19: each CacheManager.get answered from the durable tier increments that
\* entry's hit counter by exactly 1 and changes no other entry's counter; a
\* get that returns no entry changes no counter.  A step that leaves a get()
\* as the last call is that get().
C19_DurableHitCountsOnce ==
    [][lastcall'.op = "get" =>
          LET query_hash == HashQuery(lastcall'.query)
          IN  /\ lastcall'.tier = "durable" =>
                    /\ HitCount(response_cache', query_hash)
                          = HitCount(response_cache, query_hash) + 1
                    /\ \A k \in Keys \ {query_hash} :
                          HitCount(response_cache', k) = HitCount(response_cache, k)
              /\ lastcall'.result = None =>
                    \A k \in Keys :
                        HitCount(response_cache', k) = HitCount(response_cache, k)]_vars

\* A get() was answered from the durable tier and counted once, while the
\* row of another key is stored with its counter untouched.
C19_Witness ==
    /\ lastcall.op = "get"
    /\ lastcall.tier = "durable"
    /\ HitCount(response_cache, HashQuery(lastcall.query)) = 1
    /\ \E k \in Keys \ {HashQuery(lastcall.query)} :
          response_cache[k] # None /\ response_cache[k].hit_count = 0


\* ------------------------------------------------------------ sentiment

\* What the sentiment model replies: the format asked for, a label outside
\* the three asked for, a score outside the range asked for (far outside it,
\* or by the last binary digit of the double), a label and a score in another
\* script (capital Greek letters ending in a sigma, the Bengali digit one),
\* no score at all, or the call raises.
SentimentTexts ==
    { Raises,
      Says(<<80, 111, 115, 105, 116, 105, 118, 101, 124, 43, 46, 56, 10>> (* "Positive|+.8\n" *)),
      Says(<<112, 111, 115, 105, 116, 105, 118, 101, 124, 110, 97, 110>> (* "positive|nan" *)),
      Says(<<32, 65, 110, 103, 114, 121, 32, 124, 32, 48, 46, 53>> (* " Angry | 0.5" *)),
      Says(<<110, 101, 103, 97, 116, 105, 118, 101, 124, 45, 55>> (* "negative|-7" *)),
      Says(<<112, 111, 115, 105, 116, 105, 118, 101, 124, 49, 46, 48, 48, 48, 48, 48, 48, 48, 48, 48, 48, 48, 48, 48, 48, 48, 51>> (* "positive|1.0000000000000003" *)),
      Says(<<920, 917, 932, 921, 922, 927, 931, 124, 2535>> (* "\u0398\u0395\u03a4\u0399\u039a\u039f\u03a3|\u09e7" *)),
      Says(<<110, 101, 117, 116, 114, 97, 108>> (* "neutral" *)) }

\* Requests whose question and answer get any of these sentiment replies.
NextSentiment ==
    \/ \E given \in ClientConvIds \cup {""} :
          BeginMiss(<<104, 105>> (* "hi" *), "", given, "u1", TRUE)
    \/ \E l \in StoreLang, s \in SentimentTexts : Detect(l, s)
    \/ \E r \in StoreRoute : Route(r)
    \/ \E r \in StoreRetrieve : RetrieveFirst(r)
    \/ \E r \in StoreGrade : Grade(r)
    \/ \E ms \in ElapsedMs : GenerateResponse(OneAnswer, ms)
    \/ \E s \in SentimentTexts : Advise(s, OneFollowup)
    \/ Save(TRUE, TRUE, TRUE)
    \/ Tick

SpecSentiment == InitQuery /\ [][NextSentiment]_vars

POSITIVE == <<112, 111, 115, 105, 116, 105, 118, 101>> (* "positive" *)
NEGATIVE == <<110, 101, 103, 97, 116, 105, 118, 101>> (* "negative" *)
SentimentLabels == {POSITIVE, NEGATIVE, NEUTRAL}

\* A finite float in [-1.0, 1.0].
InUnitRange(x) ==
    /\ x.kind = "finite"
    /\ \/ Len(x.mant) = 0
       \/ Bits(x.mant) + x.exp <= 0
       \/ x.mant = <<1>> /\ x.exp = 0

\* A label of the three and a score in [-1.0, 1.0].
SentimentInRange(label, score) ==
    label \in SentimentLabels /\ InUnitRange(score)

\* C20: every sentiment label returned by SentimentAnalyzer.analyze and
\* stored in a sentiment_log row is one of positive, negative, neutral, and
\* every stored score lies in [-1.0, 1.0], whatever the model replies.
C20_SentimentInRange ==
    /\ pc \notin {"idle", "detect"} =>
          SentimentInRange(req.query_sentiment.sentiment, req.query_sentiment.score)
    /\ pc = "save" =>
          SentimentInRange(req.response_sentiment.sentiment,
                           req.response_sentiment.score)
    /\ \A i \in 1..Len(sentiment_log) :
          /\ SentimentInRange(sentiment_log[i].query_sentiment,
                              sentiment_log[i].query_score)
          /\ SentimentInRange(sentiment_log[i].response_sentiment,
                              sentiment_log[i].response_score)

\* ------------------------------------------------- claims: the last group

\* C21: FollowUpGenerator.generate never raises and always returns a list of
\* at most 3 strings (the empty list for a failed call or a reply that is not
\* a JSON array of strings), so a malformed follow-up reply never fails a
\* /query request.
C21_FollowUpsNeverFail ==
    /\ pc = "save" =>
          /\ Len(req.suggested_questions) <= MAX_FOLLOWUPS
          /\ \A i \in 1..Len(req.suggested_questions) :
                req.suggested_questions[i].type = "string"
    /\ resp.status # "none" =>
          /\ Len(resp.suggested_questions) <= MAX_FOLLOWUPS
          /\ \A i \in 1..Len(resp.suggested_questions) :
                resp.suggested_questions[i].type = "string"
          /\ resp.failed_at # "response"

\* Two customers ask the same question, typed differently, in their own
\* conversations.
CustomerIds == {"alice", "bob"}

NextShared ==
    \/ \E q \in QueryQuestions, c \in CustomerIds, given \in ClientConvIds \cup {""} :
          BeginHit(q, c, given, "u1", TRUE, TRUE, OneFollowup)
    \/ \E q \in QueryQuestions, c \in CustomerIds, given \in ClientConvIds \cup {""} :
          BeginMiss(q, c, given, "u1", TRUE)
    \/ \E l \in StoreLang, s \in StoreSentiment : Detect(l, s)
    \/ \E r \in StoreRoute : Route(r)
    \/ \E r \in StoreRetrieve : RetrieveFirst(r)
    \/ \E r \in StoreGrade : Grade(r)
    \/ \E r \in StoreGenerate, ms \in ElapsedMs : GenerateResponse(r, ms)
    \/ \E s \in StoreSentiment : Advise(s, OneFollowup)
    \/ Save(TRUE, TRUE, TRUE)
    \/ Tick
    \/ \E index_ok \in BOOLEAN : Restart(index_ok)

SpecShared == InitQuery /\ [][NextShared]_vars

\* Questions that are equal once lower-cased and trimmed.
SameQuestion(q1, q2) == Strip(Lower(q1)) = Strip(Lower(q2))

\* C22: the cache lookup depends only on the lower-cased, trimmed question:
\* a request is answered with the entry that any question equal to its own
\* after that normalisation finds at that moment, whoever the customer and
\* whatever the conversation, and it runs the pipeline only when none of
\* those questions finds an entry.
C22_LookupByQuestionOnly ==
    [][/\ (pc = "idle" /\ resp'.status # "none" /\ resp'.path = "hit") =>
             \A q \in QueryQuestions :
                SameQuestion(q, resp'.question) =>
                   resp'.cached = CacheGet(memory_cache, response_cache,
                                           ttl_hours, now, q, TRUE).result
       /\ (pc = "idle" /\ pc' = "detect") =>
             \A q \in QueryQuestions :
                SameQuestion(q, req'.question) =>
                   CacheGet(memory_cache, response_cache,
                            ttl_hours, now, q, TRUE).result = None]_vars

\* bob, in a conversation of his own, is served the entry that alice's
\* request stored for the same question typed differently.
C22_Witness ==
    /\ resp.status = "ok" /\ resp.path = "hit"
    /\ resp.customer_id = "bob" /\ resp.conversation_id = "u1"
    /\ conversations["c1"] # None /\ conversations["c1"].customer_id = "alice"
    /\ conversations["u1"] = None
    /\ response_cache[HashQuery(resp.question)] # None
    /\ response_cache[HashQuery(resp.question)].query # resp.question
    /\ resp.response = response_cache[HashQuery(resp.question)].response

\* ------------------------------------------------- concurrent /query requests

\* The server accepts a /query request of customer c.  It may do so while the
\* handler of another request runs: process_query is a coroutine without an
\* await, so the event loop starts the next handler only when the running one
\* has returned or raised.
Arrive(c) ==
    /\ c \notin pending
    /\ pending' = pending \cup {c}
    /\ UNCHANGED <<cacheVars, storeVars, reqVars, written, lastcall, last_miss>>

ConcQuestions == { <<104, 105>> (* "hi" *), <<121, 111>> (* "yo" *) }

\* The replies that make one request's trace differ from another's.
ConcSentiment == { Says(<<80, 111, 115, 105, 116, 105, 118, 101, 124, 48, 46, 56>> (* "Positive|0.8" *)),
                   Says(<<110, 101, 117, 116, 114, 97, 108>> (* "neutral" *)) }
ConcRoute == { Raises,
               Says(<<32, 75, 110, 111, 119, 108, 101, 100, 103, 101, 95, 66, 97, 115, 101, 32>> (* " Knowledge_Base " *)),
               Says(<<66, 105, 108, 108, 105, 110, 103, 32>> (* "Billing " *)) }
ConcGrade == { Says(<<89, 101, 115, 46>> (* "Yes." *)), Says(<<110, 111>> (* "no" *)) }

\* Requests of two customers accepted in any order; their traces differ in
\* the sentiment, the route, the relevance verdict and the rewrite.
NextConc ==
    \/ \E c \in CustomerIds : Arrive(c)
    \/ \E c \in pending, q \in ConcQuestions :
          BeginHit(q, c, "c1", "u1", TRUE, TRUE, OneFollowup)
    \/ \E c \in pending, q \in ConcQuestions : BeginMiss(q, c, "c1", "u1", TRUE)
    \/ \E l \in StoreLang, s \in ConcSentiment : Detect(l, s)
    \/ \E r \in ConcRoute : Route(r)
    \/ \E r \in StoreRetrieve : RetrieveFirst(r)
    \/ \E r \in ConcGrade : Grade(r)
    \/ \E r \in RewriteReplies : Rewrite(r)
    \/ \E r \in StoreRetrieve : RetrieveSecond(r)
    \/ \E ms \in ElapsedMs : GenerateResponse(OneAnswer, ms)
    \/ \E s \in StoreSentiment : Advise(s, OneFollowup)
    \/ Save(TRUE, TRUE, TRUE)

SpecConc == InitQuery /\ [][NextConc]_vars

\* The order in which a request that runs the pipeline appends to its trace.
STEP_ORDER == << "Language, Sentiment", "Routed to", "Document relevance",
                 "Query rewritten", "Response generated successfully",
                 "Generated follow-up questions" >>
StepRank(entry) == CHOOSE i \in 1..Len(STEP_ORDER) : STEP_ORDER[i] = entry.step

\* The trace holds what request r appended, in the order r's steps ran.
OwnTrace(r, steps, hit) ==
    IF hit THEN steps = <<[step |-> "Retrieved from cache"]>>
    ELSE /\ \A i \in 1..Len(steps) : \E k \in 1..Len(STEP_ORDER) : STEP_ORDER[k] = steps[i].step
         /\ \A i, j \in 1..Len(steps) : i < j => StepRank(steps[i]) < StepRank(steps[j])
         /\ Len(steps) >= 1 =>
               /\ steps[1].step = "Language, Sentiment"
               /\ steps[1].sentiment = r.query_sentiment.sentiment
               /\ steps[1].score = Format2f(r.query_sentiment.score)
         /\ \A i \in 1..Len(steps) :
               /\ steps[i].step = "Routed to" =>
                     steps[i].tool = Lower(Strip(r.route_reply))
               /\ steps[i].step = "Document relevance" =>
                     steps[i].relevant = (r.graded = "relevant")
               /\ steps[i].step = "Generated follow-up questions" =>
                     steps[i].n = Len(r.suggested_questions)
         /\ (\E i \in 1..Len(steps) : steps[i].step = "Document relevance")
               <=> r.graded # "none"
         /\ (\E i \in 1..Len(steps) : steps[i].step = "Query rewritten")
               <=> r.rewrote

\* C23: when several /query requests run concurrently, the reasoning_steps
\* returned for each request hold only the entries appended for that request,
\* in the order in which that request's steps ran.
C23_TraceIsOwn ==
    /\ pc # "idle" => OwnTrace(req, req.reasoning_steps, FALSE)
    /\ resp.status # "none" => OwnTrace(resp, resp.reasoning_steps, resp.path = "hit")

\* bob's request ran the pipeline to its response while alice's next request
\* was waiting, after a request of alice had been handled.
C23_Witness ==
    /\ resp.status = "ok" /\ resp.path = "miss" /\ resp.customer_id = "bob"
    /\ Len(resp.reasoning_steps) = Len(STEP_ORDER)
    /\ "alice" \in pending
    /\ Len(analytics) = MaxLog
    /\ \E i \in 1..Len(analytics) : analytics[i].query # resp.question

\* Neither a .pdf nor a .txt file.
Unsupported(filename) == ~EndsWith(filename, DOT_PDF) /\ ~EndsWith(filename, DOT_TXT)

\* C24: for an uploaded file whose name ends in neither .pdf nor .txt,
\* upload_documents sends nothing to the retrieval service and reports the
\* file with zero chunks and a status that is not one of success, and that
\* status and chunk count are recorded in a catalog row.
C24_UnsupportedIsRecorded ==
    (lastcall.op = "upload" /\ lastcall.http = 200 /\ Unsupported(lastcall.filename)) =>
        /\ lastcall.chunks = 0
        /\ lastcall.status \notin {"success", "processed"}
        /\ lastcall.row # None
        /\ knowledge_base[lastcall.file_id] = lastcall.row
        /\ lastcall.row.status = lastcall.status
        /\ lastcall.row.chunk_count = 0

\* C25: once upload_documents has finished handling a file, whether by
\* success, load error, indexing failure or a failure of the catalog write,
\* the scratch copy of that file no longer exists.
C25_ScratchFileRemoved ==
    lastcall.op = "upload" => lastcall.filename \notin temp_files

\* C26: delete_conversation removes only the conversation row: every feedback
\* row that references the deleted conversation is still stored, unchanged,
\* after the deletion, and so is every other row of every table.
C26_DeleteKeepsFeedback ==
    [][DropConversation =>
          /\ feedback' = feedback
          /\ \A c \in ConvIds \ {lastcall'.conversation_id} :
                conversations'[c] = conversations[c]
          /\ UNCHANGED <<sentiment_log, analytics, cacheVars, knowledge_base,
                         index_chunks, temp_files>>]_vars

\* The conversation c1 was stored and then deleted, and a feedback row that
\* references it is stored.
C26_Witness ==
    /\ lastcall.op = "delete_conversation" /\ lastcall.http = 200
    /\ lastcall.conversation_id = "c1"
    /\ "c1" \in served
    /\ conversations["c1"] = None
    /\ \E i \in 1..Len(feedback) : feedback[i].conversation_id = "c1"

\* ------------------------------------------------------------ termination

\* A request in progress takes its next step: every external call returns or
\* raises, and so does every sqlite statement.
RequestStep == PipelineSteps \/ \E save_ok \in BOOLEAN : Save(save_ok, TRUE, TRUE)

\* The pipeline of one question, where a request in progress goes on.
SpecLive == InitPipe /\ [][NextPipe]_vars /\ WF_vars(RequestStep)

\* The calls one request has made: each external service once, the sentiment
\* model once for the question and once for the answer, and the retrieval
\* service a second time only after the one rewrite.
CallsOnce(r) ==
    /\ r.calls.language <= 1 /\ r.calls.route <= 1 /\ r.calls.grade <= 1
    /\ r.calls.rewrite <= 1 /\ r.calls.generate <= 1 /\ r.calls.followup <= 1
    /\ r.calls.sentiment <= 2
    /\ r.calls.sentiment = 2 => r.calls.generate = 1
    /\ r.calls.retrieve <= 2
    /\ r.calls.retrieve = 2 => (r.calls.rewrite = 1 /\ r.rewrote)
    /\ r.retrieve_failed => r.calls.retrieve = 1

\* The call that raised was the last external call of the request.
EndsAtFailure(r) ==
    /\ r.failed_at = "route" =>
          r.calls.route = 1 /\ r.calls.retrieve = 0 /\ r.calls.generate = 0
    /\ r.failed_at = "grade" =>
          r.calls.grade = 1 /\ r.calls.rewrite = 0 /\ r.calls.generate = 0
    /\ r.failed_at = "rewrite" =>
          r.calls.rewrite = 1 /\ r.calls.retrieve = 1 /\ r.calls.generate = 0
    /\ r.failed_at = "generate" =>
          r.calls.generate = 1 /\ r.calls.followup = 0 /\ r.calls.sentiment = 1

\* C27: every /query request terminates, with a response or with the failure
\* outcome, provided each external call returns or raises: no external call
\* is repeated after it fails, and the only step that runs a second time is
\* the single relevance-driven second retrieval.
C27_QueryTerminates ==
    /\ [](/\ pc # "idle" => CallsOnce(req)
          /\ resp.status # "none" => CallsOnce(resp) /\ EndsAtFailure(resp))
    /\ (pc # "idle") ~> (pc = "idle" /\ resp.status \in {"ok", "error"})

\* A request ended in the failure outcome at the answer model, after the one
\* rewrite and the second retrieval.
C27_Witness ==
    /\ pc = "idle"
    /\ resp.status = "error" /\ resp.failed_at = "generate"
    /\ resp.calls.rewrite = 1 /\ resp.calls.retrieve = 2 /\ resp.calls.generate = 1

\* ------------------------------------------------- claims: hits and misses

\* C28: the answer and the sources returned on a cache hit for question q
\* equal the answer and the sources returned in the response of the most
\* recent successful miss-path /query whose question normalises to the same
\* text as q.
C28_HitRepeatsLastMiss ==
    (resp.status = "ok" /\ resp.path = "hit") =>
        LET last == last_miss[HashQuery(resp.question)]
        IN  /\ last # None
            /\ resp.response = last.response
            /\ resp.sources = last.sources

\* C29: for every cache entry, the durable hit counter equals the number of
\* CacheManager.get calls that returned that entry since it was last written
\* by set, whichever tier served the call.  Stated of the first get() after
\* a set(): it returned the entry just written, so the counter is 1.
C29_CounterCountsEveryGet ==
    (/\ lastcall.op = "get"
     /\ lastcall.after_set
     /\ HashQuery(lastcall.set_query) = HashQuery(lastcall.query)
     /\ lastcall.result # None) =>
        HitCount(response_cache, HashQuery(lastcall.query)) = 1

====
